---- MODULE Spec2Model ----
(***************************************************************************)
(* Post Transformation Pipeline of the channel bot (src/main.py):          *)
(* the album aggregator (handle_channel_post, album branch, and the        *)
(* deferred job process_media_group) and the single-post orchestrator      *)
(* (handle_channel_post).                                                  *)
(*                                                                         *)
(* A Python string is a sequence of tokens; None and the literal           *)
(* "Not set" are the one-token sequences None and NotSet.  Every await of  *)
(* the code is a suspension point: an action runs a coroutine from one     *)
(* await to the next.                                                      *)
(***************************************************************************)
EXTENDS Integers, Sequences, FiniteSets, TLC

\* ----------------------------------------------------------------- bounds
MaxPosts == 3        \* posts that arrive in one run
MaxRefirings == 1    \* duplicate firings of deferred jobs in one run
MaxToggles == 2      \* status toggles by the owner in one run

\* -------------------------------------------------------------- constants
max_size_mb == 20                \* download_telegram_file(max_size_mb=20)
None == <<"<None>">>
NotSet == <<"Not set">>

Albums == {1}                    \* media_group_id values of arriving posts
ChatOf(g) == 10                  \* the chat an album is posted in
\* the album posts that arrive: media kind and caption.  A video item runs
\* the statements of a photo item (only the file extension and the media
\* class differ); a document stands for every item that is neither.
AlbumPosts == { [kind |-> "photo", caption |-> <<"a">>,
                 caption_entities |-> << [type |-> "italic", offset |-> 0, length |-> 1] >>],
                [kind |-> "document", caption |-> None, caption_entities |-> <<>>] }

VARIABLES
    USER_CHANNELS,     \* Registry: sequence of [uid, channels], in dict order
    media_groups,      \* bot_data['media_groups']: album id -> AlbumBatch
    job_queue,         \* album id -> number of run_once jobs armed, not yet run
    jobs,              \* the invocations of process_media_group, in firing order
    files,             \* the files in TEMP_DIR
    next_message_id,   \* message id of the next arriving post
    item,              \* per album message: what was done for it (history)
    created,           \* album id -> AlbumBatches created so far (history)
    deleted,           \* album id -> AlbumBatches deleted so far (history)
    armed,             \* album id -> run_once calls so far (history)
    firings,           \* album id -> firings so far, and those that returned
                       \* at once (history)
    channel_post,      \* the single post handle_channel_post is working on
    handler,           \* the frame of that invocation: its position (pc) and
                       \* its local variables
    calls,             \* what the invocation has done so far, in order: its
                       \* outbound calls and executor runs (history)
    toggles,           \* rule block -> status toggles by the owner (history)
    next_step,         \* user -> user_data['next_step'], the pending step token
    DATA_FILE,         \* the JSON document save_data has written last
    reply,             \* the last answer of a private-chat handler (history)
    updates,           \* private-chat updates handled so far (history)
    cached             \* channel id -> the source identifiers whose bytes
                       \* watermark_<id>.png and watermark_<id>.gif hold

vars == <<USER_CHANNELS, media_groups, job_queue, jobs, files, next_message_id,
          item, created, deleted, armed, firings, channel_post, handler, calls,
          toggles, next_step, DATA_FILE, reply, updates, cached>>
\* the variables only the album aggregator writes, and those only the
\* single-post orchestrator writes
admin_vars == <<toggles, next_step, DATA_FILE, reply, updates, cached>>
conv_vars == <<next_step, reply, updates>>
album_vars == <<media_groups, job_queue, jobs, item, created, deleted, armed, firings>>
post_vars == <<channel_post, handler, calls>>

\* apply_image_watermark runs the transcoder with subprocess.run, a call
\* that does not return to the event loop before the process has ended:
\* while the handler is there no other coroutine and no job runs
LoopBlocked == handler.pc = "apply_image_watermark"

\* ------------------------------------------------------------ the Registry
WatermarkBlock(status, type, config) ==
    [status |-> status, type |-> type, config |-> config,
     file_id |-> None, file_path |-> None]

ChannelConfig(id, wm, button, caption, reaction) ==
    [id |-> id, username |-> None,
     auto_button |-> button, auto_captions |-> caption,
     auto_reactions |-> [status |-> reaction], auto_watermark |-> wm]

\* the rule blocks whose status the owner toggles
Blocks == {"auto_button", "auto_captions", "auto_watermark"}
RuleBlocks == Blocks \cup {"auto_reactions"}

InactiveButton == [status |-> "inactive", config |-> NotSet]
InactiveCaption == [status |-> "inactive", config |-> NotSet, entities |-> <<>>]

ActiveButton == [status |-> "active",
                 config |-> <<"A", " - ", "x.com", "&&", "B", " - ", "popup:", "hi",
                              "\n", "C", " - ", "t.me/", "c">>]
ActiveCaption == [status |-> "active", config |-> <<"c", "<gem>">>,
                  entities |-> << [type |-> "bold", offset |-> 1, length |-> 2] >>]
Registries ==
    { \* chat 10 registered with all four rules active, text watermark
      << [uid |-> 1, channels |-> << ChannelConfig(10,
             WatermarkBlock("active", "text", <<"w">>),
             ActiveButton, ActiveCaption, "active") >>] >>,
      \* chat 10 registered by the second owner, watermark rule inactive
      << [uid |-> 1, channels |-> << ChannelConfig(30,
             WatermarkBlock("active", "text", <<"w">>),
             InactiveButton, InactiveCaption, "inactive") >>],
         [uid |-> 2, channels |-> << ChannelConfig(10,
             WatermarkBlock("inactive", "text", <<"w">>),
             InactiveButton, InactiveCaption, "inactive") >>] >>,
      \* chat 10 registered, rule active but never configured ("Not set")
      << [uid |-> 1, channels |-> << ChannelConfig(10,
             WatermarkBlock("active", "text", NotSet),
             InactiveButton, InactiveCaption, "inactive") >>] >>,
      \* chat 10 not registered
      << [uid |-> 1, channels |-> << ChannelConfig(30,
             WatermarkBlock("active", "text", <<"w">>),
             InactiveButton, InactiveCaption, "inactive") >>] >> }

RECURSIVE ScanChannels(_, _, _)
ScanChannels(channels, ch_id, i) ==
    IF i > Len(channels) THEN 0
    ELSE IF channels[i].id = ch_id THEN i
    ELSE ScanChannels(channels, ch_id, i + 1)

\* the linear scan over the Registry: <<owner index, channel index>> of the
\* first record with this id, <<0, 0>> when there is none
RECURSIVE ScanOwners(_, _)
ScanOwners(ch_id, k) ==
    IF k > Len(USER_CHANNELS) THEN <<0, 0>>
    ELSE LET c == ScanChannels(USER_CHANNELS[k].channels, ch_id, 1)
         IN  IF c # 0 THEN <<k, c>> ELSE ScanOwners(ch_id, k + 1)

\* a scan that goes on to the last record with this id
RECURSIVE FindLast(_, _, _)
FindLast(ch_id, k, found) ==
    IF k > Len(USER_CHANNELS) THEN found
    ELSE LET c == ScanChannels(USER_CHANNELS[k].channels, ch_id, 1)
         IN  FindLast(ch_id, k + 1, IF c # 0 THEN <<k, c>> ELSE found)

FindLastConfig(ch_id) == FindLast(ch_id, 1, <<0, 0>>)

FindConfig(ch_id) == ScanOwners(ch_id, 1)

ConfigAt(p) == USER_CHANNELS[p[1]].channels[p[2]]

watermark_active(cfg) ==
    /\ cfg.auto_watermark.status = "active"
    /\ cfg.auto_watermark.config \notin {None, NotSet}

\* ----------------------------------------------------------------- markup
NoMarkup == [is_none |-> TRUE, inline_keyboard |-> <<>>]
InlineKeyboardMarkup(buttons) == [is_none |-> FALSE, inline_keyboard |-> buttons]

\* ------------------------------------------------------------------ files
NoPath == [kind |-> "none", message_id |-> 0, job |-> 0]
TempFile(kind, mid, j) == [kind |-> kind, message_id |-> mid, job |-> j]

\* TEMP_DIR / f"watermark_{ch_id}.png" and .gif: the files a capture writes
CacheFile(ch_id) == TempFile("watermark_cache", 0, ch_id)
GifCacheFile(ch_id) == TempFile("watermark_gif", 0, ch_id)

\* ---------------------------------------------------- text and entities
\* UTF-16 code units of one character: the two non-BMP characters are
\* surrogate pairs
Units(c) == IF c \in {"<gem>", "<bookmark>"} THEN 2 ELSE 1

\* len(text.encode('utf-16-le')) // 2
\* len(text): the length in code points
code_points(text) == Len(text)

RECURSIVE utf16_len(_)
utf16_len(text) == IF text = <<>> THEN 0 ELSE Units(Head(text)) + utf16_len(Tail(text))

separator == <<"\n", "\n">>

MessageEntity(type, offset, length) == [type |-> type, offset |-> offset, length |-> length]

\* In the operators below a local variable of the code is a bound variable
\* ranging over a one-element set: its value is computed once, as the
\* assignment does.

\* str.split(sep)
RECURSIVE Split(_, _)
Split(str, sep) ==
    IF \A i \in 1..Len(str) : str[i] # sep THEN <<str>>
    ELSE CHOOSE r \in
             { <<SubSeq(str, 1, i - 1)>> \o Split(SubSeq(str, i + 1, Len(str)), sep) :
                 \* i: the first occurrence of sep
                 i \in {n \in 1..Len(str) :
                           str[n] = sep /\ \A m \in 1..(n - 1) : str[m] # sep} } : TRUE

\* one '&&' segment of a button line: the buttons it yields (one or none).
\* Tokens carry no surrounding blanks, so strip() leaves them as they are.
ParsePart(part) ==
    LET has_sep == \E i \in 1..Len(part) : part[i] = " - "
        has_popup == \E i \in 1..(Len(part) - 1) : part[i] = " - " /\ part[i + 1] = "popup:"
    IN  IF has_sep /\ ~has_popup
        THEN LET i == CHOOSE n \in 1..Len(part) :
                          part[n] = " - " /\ \A m \in 1..(n - 1) : part[m] # " - "
                 text == SubSeq(part, 1, i - 1)
                 url == SubSeq(part, i + 1, Len(part))
                 url2 == IF url # <<>> /\ Head(url) \in {"http://", "https://", "t.me/"}
                         THEN url ELSE <<"http://">> \o url
             IN  << [text |-> text, url |-> url2] >>
        ELSE <<>>

RECURSIVE ParseParts(_)
ParseParts(parts) ==
    IF parts = <<>> THEN <<>>
    ELSE CHOOSE r \in { ParsePart(part) \o ParseParts(rest) :
                            part \in {Head(parts)}, rest \in {Tail(parts)} } : TRUE

RECURSIVE ParseLines(_)
ParseLines(lines) ==
    IF lines = <<>> THEN <<>>
    ELSE CHOOSE r \in
             { (IF line_buttons # <<>> THEN <<line_buttons>> ELSE <<>>) \o ParseLines(rest) :
                 line_buttons \in {ParseParts(parts) : parts \in {Split(Head(lines), "&&")}},
                 rest \in {Tail(lines)} } : TRUE

\* "Apply Auto Buttons": the reply markup after the button rule
ApplyAutoButtons(cfg, reply_markup) ==
    LET button_config_str == cfg.auto_button.config
    IN  IF /\ cfg.auto_button.status = "active"
           /\ button_config_str \notin {None, <<>>, NotSet}
        THEN CHOOSE r \in
                 { IF buttons # <<>> THEN InlineKeyboardMarkup(buttons) ELSE reply_markup :
                     buttons \in {ParseLines(lines) :
                                    lines \in {Split(button_config_str, "\n")}} } : TRUE
        ELSE reply_markup

RECURSIVE ShiftEntities(_, _)
ShiftEntities(entities, offset) ==
    IF entities = <<>> THEN <<>>
    ELSE << MessageEntity(Head(entities).type, Head(entities).offset + offset,
                          Head(entities).length) >>
         \o ShiftEntities(Tail(entities), offset)

\* "Apply Auto Captions": text and entities after the caption rule
ApplyAutoCaptions(cfg, text, entities) ==
    LET caption_config_text == cfg.auto_captions.config
        caption_config_entities == cfg.auto_captions.entities
    IN  IF /\ cfg.auto_captions.status = "active"
           /\ caption_config_text \notin {None, <<>>, NotSet}
        THEN IF text # None
             THEN [text |-> text \o separator \o caption_config_text,
                   entities |-> entities \o
                       ShiftEntities(caption_config_entities,
                                     utf16_len(text) + utf16_len(separator))]
             ELSE [text |-> caption_config_text, entities |-> caption_config_entities]
        ELSE [text |-> text, entities |-> entities]

\* ------------------------------------------------------------ persistence
\* json.dump(USER_CHANNELS): the keys of a JSON object are strings, so each
\* owner identifier is written as its decimal text
json_dump(registry) ==
    [k \in 1..Len(registry) |->
        [key |-> <<"str", registry[k].uid>>, channels |-> registry[k].channels]]

\* load_data: "Convert string keys back to integers"
json_load(document) ==
    [k \in 1..Len(document) |->
        [uid |-> document[k].key[2], channels |-> document[k].channels]]

\* -------------------------------------------------------- conversations
Users == {1, 2}

\* the chats a user can forward a post of
Chats == {10, 30}

NoStep == [field |-> "none", ch_id |-> 0]
NoReply == [to |-> 0, text |-> "none", data |-> <<>>]

\* after load_data at start-up: the document is the Registry, no user has a
\* pending step
InitConversation ==
    /\ next_step = [u \in Users |-> NoStep]
    /\ DATA_FILE = json_dump(USER_CHANNELS)
    /\ reply = NoReply
    /\ updates = 0
    \* a cache file there is at the start was written by the capture of "f"
    /\ cached = [ch \in Chats |->
                    [png |-> IF CacheFile(ch) \in files THEN <<"f">> ELSE None,
                     gif |-> None]]

\* ------------------------------------------------------- album aggregation
NewItem(g, msg) ==
    [media_group_id |-> g, gen |-> created[g] + (IF g \in DOMAIN media_groups THEN 0 ELSE 1),
     kind |-> msg.kind, caption |-> msg.caption, caption_entities |-> msg.caption_entities,
     ops |-> <<>>, media |-> [caption |-> None, caption_entities |-> <<>>],
     get_file |-> 0, wm |-> 0, edit_media |-> 0, notice |-> 0,
     failed |-> FALSE, visited |-> FALSE,
     late |-> (\E j \in 1..Len(jobs) : jobs[j].media_group_id = g /\ jobs[j].pc # "done")]

Remove(f, k) == [x \in DOMAIN f \ {k} |-> f[x]]

needs_job_every_arrival(album_data) == TRUE

\* "Schedule album processing only ONCE per album"
needs_job(album_data) == ~album_data.job_scheduled

\* handle_channel_post, a post with a media_group_id: store it in its
\* AlbumBatch and arm the deferred job unless the batch has one
AlbumPostArrives(g, kind, caption, caption_entities) ==
    /\ handler.pc = "idle"      \* updates are handled one at a time
    /\ next_message_id <= MaxPosts
    /\ LET msg == [message_id |-> next_message_id, chat_id |-> ChatOf(g),
                   kind |-> kind, caption |-> caption,
                   caption_entities |-> caption_entities]
           mg1 == IF g \in DOMAIN media_groups THEN media_groups
                  ELSE (g :> [messages |-> <<>>, chat_id |-> ChatOf(g),
                              job_scheduled |-> FALSE, processed |-> FALSE])
                       @@ media_groups
           mg2 == [mg1 EXCEPT ![g].messages = Append(@, msg)]
       IN  /\ created' = [created EXCEPT ![g] = @ + (IF g \in DOMAIN media_groups THEN 0 ELSE 1)]
           /\ item' = (next_message_id :> NewItem(g, msg)) @@ item
           /\ IF needs_job(mg2[g])
              THEN /\ job_queue' = [job_queue EXCEPT ![g] = @ + 1]
                   /\ armed' = [armed EXCEPT ![g] = @ + 1]
                   /\ media_groups' = [mg2 EXCEPT ![g].job_scheduled = TRUE]
              ELSE /\ media_groups' = mg2
                   /\ UNCHANGED <<job_queue, armed>>
    /\ next_message_id' = next_message_id + 1
    /\ UNCHANGED <<USER_CHANNELS, jobs, files, deleted, firings>>

\* ------------------------------------------------- process_media_group
Watermarkable == {"photo", "video"}

\* the for loop's search for the next message the body acts on: a message
\* that is neither a photo nor a video passes through the body untouched
RECURSIVE NextMediaIndex(_, _)
NextMediaIndex(messages, i) ==
    IF i > Len(messages) THEN i
    ELSE IF messages[i].kind \in Watermarkable THEN i
    ELSE NextMediaIndex(messages, i + 1)

DeleteBatch(mg, g) == Remove(mg, g)

\* a loop over a copy of the list taken when the job started: a message
\* that arrived later is not seen
LoopOverSnapshot(jb, i, mg, it) ==
    LET g == jb.media_group_id
        messages == SelectSeq(mg[g].messages, LAMBDA m : ~it[m.message_id].late)
        k == NextMediaIndex(messages, i)
        last == IF k > Len(messages) THEN Len(messages) ELSE k
        seen == {messages[n].message_id : n \in i..last}
        it2 == [m \in DOMAIN it |->
                  IF m \in seen THEN [it[m] EXCEPT !.visited = TRUE] ELSE it[m]]
    IN  IF k > Len(messages)
        THEN [job |-> [jb EXCEPT !.pc = "done", !.idx = k, !.outcome = "consumed"],
              mg |-> DeleteBatch(mg, g), item |-> it2, del |-> 1]
        ELSE [job |-> [jb EXCEPT !.pc = "get_file", !.idx = k],
              mg |-> mg,
              item |-> [it2 EXCEPT ![messages[k].message_id].get_file = @ + 1,
                                   ![messages[k].message_id].ops = Append(@, "get_file")],
              del |-> 0]

\* the for loop over the live list album_data['messages'], resumed at
\* index i: either the body starts its first await (get_file) for the next
\* photo or video, or the list is exhausted and the batch is deleted
LoopFrom(jb, i, mg, it) ==
    LET g == jb.media_group_id
        messages == mg[g].messages
        k == NextMediaIndex(messages, i)
        last == IF k > Len(messages) THEN Len(messages) ELSE k
        seen == {messages[n].message_id : n \in i..last}
        it2 == [m \in DOMAIN it |->
                  IF m \in seen THEN [it[m] EXCEPT !.visited = TRUE] ELSE it[m]]
    IN  IF k > Len(messages)
        THEN [job |-> [jb EXCEPT !.pc = "done", !.idx = k, !.outcome = "consumed"],
              mg |-> DeleteBatch(mg, g), item |-> it2, del |-> 1]
        ELSE [job |-> [jb EXCEPT !.pc = "get_file", !.idx = k],
              mg |-> mg,
              item |-> [it2 EXCEPT ![messages[k].message_id].get_file = @ + 1,
                                   ![messages[k].message_id].ops = Append(@, "get_file")],
              del |-> 0]

NewJob(g) ==
    [media_group_id |-> g, gen |-> 0, pc |-> "start", idx |-> 0,
     downloaded_path |-> NoPath, watermarked_path |-> NoPath,
     success_count |-> 0, lookups |-> 0, outcome |-> "none", refired |-> FALSE]

never_processed(album_data) == FALSE

\* "Check if already processed"
already_processed(album_data) == album_data.processed

\* process_media_group from its entry to its first await or its return
StartJob(g, refire) ==
    LET jb == [NewJob(g) EXCEPT !.refired = refire]
    IN
    IF g \notin DOMAIN media_groups
    THEN /\ firings' = [firings EXCEPT ![g].total = @ + 1, ![g].absent = @ + 1,
                                       ![g].refired = @ + (IF refire THEN 1 ELSE 0)]
         /\ UNCHANGED <<jobs, media_groups, item, deleted>>
    ELSE IF already_processed(media_groups[g])
    THEN /\ firings' = [firings EXCEPT ![g].total = @ + 1, ![g].skipped = @ + 1,
                                       ![g].refired = @ + (IF refire THEN 1 ELSE 0)]
         /\ UNCHANGED <<jobs, media_groups, item, deleted>>
    ELSE LET mg1 == [media_groups EXCEPT ![g].processed = TRUE]
             p == FindConfig(mg1[g].chat_id)
             jb1 == [jb EXCEPT !.gen = created[g], !.lookups = 1]
         IN  /\ firings' = [firings EXCEPT ![g].total = @ + 1,
                                           ![g].refired = @ + (IF refire THEN 1 ELSE 0)]
             /\ IF p = <<0, 0>>
                THEN /\ jobs' = Append(jobs, [jb1 EXCEPT !.pc = "done", !.outcome = "no_config"])
                     /\ media_groups' = DeleteBatch(mg1, g)
                     /\ deleted' = [deleted EXCEPT ![g] = @ + 1]
                     /\ UNCHANGED item
                ELSE IF ~watermark_active(ConfigAt(p))
                THEN /\ jobs' = Append(jobs, [jb1 EXCEPT !.pc = "done", !.outcome = "inactive"])
                     /\ media_groups' = DeleteBatch(mg1, g)
                     /\ deleted' = [deleted EXCEPT ![g] = @ + 1]
                     /\ UNCHANGED item
                ELSE LET r == LoopFrom(jb1, 1, mg1, item)
                     IN  /\ jobs' = Append(jobs, r.job)
                         /\ media_groups' = r.mg
                         /\ item' = r.item
                         /\ deleted' = [deleted EXCEPT ![g] = @ + r.del]

RECURSIVE SumRefired(_)
SumRefired(S) == IF S = {} THEN 0
                 ELSE LET g == CHOOSE x \in S : TRUE
                      IN  firings[g].refired + SumRefired(S \ {g})
Refired == SumRefired(Albums)

\* the job queue runs an armed job, 2 seconds after run_once
FireJob(g) ==
    /\ ~LoopBlocked
    /\ job_queue[g] > 0
    /\ job_queue' = [job_queue EXCEPT ![g] = @ - 1]
    /\ StartJob(g, FALSE)
    /\ UNCHANGED <<USER_CHANNELS, files, next_message_id, created, armed>>

\* at-least-once firing: a job that has run is run again
RefireJob(g) ==
    /\ ~LoopBlocked
    /\ firings[g].total > 0
    /\ Refired < MaxRefirings
    /\ StartJob(g, TRUE)
    /\ UNCHANGED <<USER_CHANNELS, files, next_message_id, created, armed, job_queue>>

\* an except branch that gives the job up at the first failing message
ItemFailedEndsJob(j, fl) ==
    LET jb == jobs[j]
        g == jb.media_group_id
        mid == media_groups[g].messages[jb.idx].message_id
    IN  /\ jobs' = [jobs EXCEPT ![j].pc = "done", ![j].outcome = "consumed",
                                ![j].downloaded_path = NoPath,
                                ![j].watermarked_path = NoPath]
        /\ media_groups' = DeleteBatch(media_groups, g)
        /\ item' = [item EXCEPT ![mid].failed = TRUE]
        /\ deleted' = [deleted EXCEPT ![g] = @ + 1]
        /\ files' = fl

\* the except branch of the loop body: log, continue with the next message
ItemFailed(j, fl) ==
    LET jb == jobs[j]
        g == jb.media_group_id
        mid == media_groups[g].messages[jb.idx].message_id
        jb1 == [jb EXCEPT !.downloaded_path = NoPath, !.watermarked_path = NoPath]
        r == LoopFrom(jb1, jb.idx + 1, media_groups, [item EXCEPT ![mid].failed = TRUE])
    IN  /\ jobs' = [jobs EXCEPT ![j] = r.job]
        /\ media_groups' = r.mg
        /\ item' = r.item
        /\ deleted' = [deleted EXCEPT ![g] = @ + r.del]
        /\ files' = fl

\* download_telegram_file: get_file returns; a file above max_size_mb raises
GetFileReturns(j, result) ==
    /\ ~LoopBlocked
    /\ j \in 1..Len(jobs) /\ jobs[j].pc = "get_file"
    /\ IF result = "ok"
       THEN /\ jobs' = [jobs EXCEPT ![j].pc = "download_to_drive"]
            /\ UNCHANGED <<media_groups, item, deleted, files>>
       ELSE ItemFailed(j, files)
    /\ UNCHANGED <<USER_CHANNELS, job_queue, next_message_id, created, armed, firings>>

\* download_telegram_file: download_to_drive returns, then the body calls
\* apply_watermark, which starts the transcoding process and awaits it
DownloadReturns(j, result) ==
    /\ ~LoopBlocked
    /\ j \in 1..Len(jobs) /\ jobs[j].pc = "download_to_drive"
    /\ LET jb == jobs[j]
           mid == media_groups[jb.media_group_id].messages[jb.idx].message_id
       IN  IF result = "ok"
           THEN /\ files' = files \cup {TempFile("downloaded", mid, j)}
                /\ jobs' = [jobs EXCEPT ![j].pc = "apply_watermark",
                                        ![j].downloaded_path = TempFile("downloaded", mid, j),
                                        ![j].watermarked_path = TempFile("watermarked", mid, j)]
                /\ item' = [item EXCEPT ![mid].wm = @ + 1]
                /\ UNCHANGED <<media_groups, deleted>>
           ELSE ItemFailed(j, files)
    /\ UNCHANGED <<USER_CHANNELS, job_queue, next_message_id, created, armed, firings>>

\* the caption rule applied to the item as it is to a single post
AlbumMediaComposed(cfg, msg) ==
    LET cap == ApplyAutoCaptions(cfg, msg.caption, msg.caption_entities)
    IN  [caption |-> cap.text, caption_entities |-> cap.entities]

\* "Get caption": the InputMedia of an album item carries the caption and
\* the entities of the message (an empty one becomes None)
AlbumMedia(cfg, msg) ==
    [caption |-> IF msg.caption \notin {None, <<>>} THEN msg.caption ELSE None,
     caption_entities |-> msg.caption_entities]

\* apply_watermark returns: exit code 0 with the output written, or a
\* failure (non-zero exit, executable missing) with or without output;
\* on success the body calls edit_message_media
ApplyWatermarkReturns(j, result) ==
    /\ ~LoopBlocked
    /\ j \in 1..Len(jobs) /\ jobs[j].pc = "apply_watermark"
    /\ LET jb == jobs[j]
           msg == media_groups[jb.media_group_id].messages[jb.idx]
           mid == msg.message_id
           cfg == ConfigAt(FindConfig(media_groups[jb.media_group_id].chat_id))
       IN  IF result = "ok"
           THEN /\ files' = files \cup {jb.watermarked_path}
                /\ jobs' = [jobs EXCEPT ![j].pc = "edit_message_media"]
                /\ item' = [item EXCEPT ![mid].edit_media = @ + 1,
                                        ![mid].ops = Append(@, "edit_message_media"),
                                        ![mid].media = AlbumMedia(cfg, msg)]
                /\ UNCHANGED <<media_groups, deleted>>
           ELSE ItemFailed(j, IF result = "failed_with_output"
                              THEN files \cup {jb.watermarked_path} ELSE files)
    /\ UNCHANGED <<USER_CHANNELS, job_queue, next_message_id, created, armed, firings>>

\* edit_message_media returns (a rejection is logged), both files are
\* unlinked and the loop goes on
EditMediaReturns(j, result) ==
    /\ ~LoopBlocked
    /\ j \in 1..Len(jobs) /\ jobs[j].pc = "edit_message_media"
    /\ LET jb == jobs[j]
           g == jb.media_group_id
           mid == media_groups[g].messages[jb.idx].message_id
           jb1 == [jb EXCEPT !.success_count = @ + (IF result = "ok" THEN 1 ELSE 0),
                             !.downloaded_path = NoPath, !.watermarked_path = NoPath]
           r == LoopFrom(jb1, jb.idx + 1, media_groups,
                         [item EXCEPT ![mid].failed = (result # "ok")])
       IN  /\ files' = files \ {jb.downloaded_path, jb.watermarked_path}
           /\ jobs' = [jobs EXCEPT ![j] = r.job]
           /\ media_groups' = r.mg
           /\ item' = r.item
           /\ deleted' = [deleted EXCEPT ![g] = @ + r.del]
    /\ UNCHANGED <<USER_CHANNELS, job_queue, next_message_id, created, armed, firings>>

\* ------------------------------------------------- the filter compilers
\* dict.get(key, default)
Get(d, key, default) == IF key \in DOMAIN d THEN d[key] ELSE default

\* the part of the transcoder command that depends on quality, effect and
\* effect_speed: the rate flag (-crf for a video, -q:v for a still) with its
\* value, and the factor of t in the position or alpha expression, a ratio
\* num/den (den = 0: no expression of t)
NoMotion == [num |-> 0, den |-> 0]
NoCommand == [compiler |-> "none", rate |-> [flag |-> "none", value |-> 0],
              motion |-> NoMotion]

\* the effects apply_watermark animates, and those apply_image_watermark does
DrawtextEffects == {"scroll_left", "scroll_right", "scroll_up", "scroll_down",
                    "fade", "pulse", "wave"}
OverlayEffects == {"move_diagonal_dr", "move_diagonal_dl", "move_diagonal_ur",
                   "move_diagonal_ul"}

\* int(x) for x = num/100 with num >= 0: truncation
IntOfHundredths(num) == num \div 100

\* apply_watermark (text): speed_factor = 100.0 / effect_speed is the factor
\* of t; crf_value = int(51 - (quality * 0.51)) for a video,
\* -q:v int((100 - quality) * 0.31) for a still
apply_watermark(quality, is_video, effect, effect_speed) ==
    [compiler |-> "apply_watermark",
     rate |-> IF is_video
              THEN [flag |-> "-crf", value |-> IntOfHundredths(5100 - quality * 51)]
              ELSE [flag |-> "-q:v", value |-> IntOfHundredths((100 - quality) * 31)],
     motion |-> IF is_video /\ effect \in DrawtextEffects
                THEN [num |-> 100, den |-> effect_speed] ELSE NoMotion]

Max(a, b) == IF a >= b THEN a ELSE b
Min(a, b) == IF a <= b THEN a ELSE b

\* apply_image_watermark (overlay): speed_factor = effect_speed / 50.0 and
\* the factor of t is speed_factor*100; crf = max(0, min(51, 51 -
\* int(quality * 51 / 100))) for a video, -q:v max(1, min(31,
\* int((100-quality)*31/100))) for a still
apply_image_watermark(quality, is_video, effect, effect_speed) ==
    [compiler |-> "apply_image_watermark",
     rate |-> IF is_video
              THEN [flag |-> "-crf",
                    value |-> Max(0, Min(51, 51 - IntOfHundredths(quality * 51)))]
              ELSE [flag |-> "-q:v",
                    value |-> Max(1, Min(31, IntOfHundredths((100 - quality) * 31)))],
     motion |-> IF is_video /\ effect \in OverlayEffects
                THEN [num |-> effect_speed * 100, den |-> 50] ELSE NoMotion]

\* the command of the compiler for the post and the stored settings
Compile(compiler, cp, wm) ==
    LET quality == Get(wm, "quality", 75)
        effect == Get(wm, "effect", "none")
        effect_speed == Get(wm, "effect_speed", 50)
        is_video == cp.kind # "photo"
    IN  IF compiler = "apply_watermark"
        THEN apply_watermark(quality, is_video, effect, effect_speed)
        ELSE apply_image_watermark(quality, is_video, effect, effect_speed)

\* ------------------------------------------------------- the album system
NoPost == [message_id |-> 0, chat_id |-> 0, kind |-> "none", text |-> None,
           caption |-> None, entities |-> <<>>, reply_markup |-> NoMarkup]

IdleHandler ==
    [pc |-> "idle", channel_config |-> <<0, 0>>,
     final_text |-> None, final_entities |-> <<>>, final_reply_markup |-> NoMarkup,
     downloaded_file_path |-> NoPath, watermarked_file_path |-> NoPath,
     edited_message_id |-> 0, failed |-> FALSE, file_size_mb |-> 0,
     ffmpeg_command |-> NoCommand]

InitAlbum ==
    /\ USER_CHANNELS \in Registries
    /\ channel_post = NoPost
    /\ handler = IdleHandler
    /\ calls = <<>>
    /\ media_groups = <<>>
    /\ job_queue = [g \in Albums |-> 0]
    /\ jobs = <<>>
    /\ files = {}
    /\ next_message_id = 1
    /\ item = <<>>
    /\ created = [g \in Albums |-> 0]
    /\ deleted = [g \in Albums |-> 0]
    /\ armed = [g \in Albums |-> 0]
    /\ firings = [g \in Albums |-> [total |-> 0, absent |-> 0, skipped |-> 0, refired |-> 0]]
    /\ toggles = [b \in RuleBlocks |-> 0]
    /\ InitConversation

JobIds == 1..(MaxPosts + MaxRefirings)

JobStep(j) ==
    \/ \E result \in {"ok", "too_large", "error"} : GetFileReturns(j, result)
    \/ \E result \in {"ok", "error"} : DownloadReturns(j, result)
    \/ \E result \in {"ok", "rejected"} : EditMediaReturns(j, result)

TranscodeStep(j) ==
    \E result \in {"ok", "failed", "failed_with_output"} : ApplyWatermarkReturns(j, result)

NextAlbum ==
    \/ (\E g \in Albums, p \in AlbumPosts : AlbumPostArrives(g, p.kind, p.caption,
                                                                  p.caption_entities))
          /\ UNCHANGED <<post_vars, admin_vars>>
    \/ (\E g \in Albums : FireJob(g)) /\ UNCHANGED <<post_vars, admin_vars>>
    \/ (\E g \in Albums : RefireJob(g)) /\ UNCHANGED <<post_vars, admin_vars>>
    \/ (\E j \in JobIds, result \in {"ok", "too_large", "error"} :
            GetFileReturns(j, result)) /\ UNCHANGED <<post_vars, admin_vars>>
    \/ (\E j \in JobIds, result \in {"ok", "error"} :
            DownloadReturns(j, result)) /\ UNCHANGED <<post_vars, admin_vars>>
    \/ (\E j \in JobIds : TranscodeStep(j)) /\ UNCHANGED <<post_vars, admin_vars>>
    \/ (\E j \in JobIds, result \in {"ok", "rejected"} :
            EditMediaReturns(j, result)) /\ UNCHANGED <<post_vars, admin_vars>>

SpecAlbum == InitAlbum /\ [][NextAlbum]_vars

\* ------------------------------------------------- handle_channel_post
MediaKinds == {"photo", "video", "animation"}
\* a send that answers with the id of the post it replaces
SameMessageId(mid) == mid

\* edited_message.message_id of the post the fallback sends: a new id
NewMessageId(mid) == mid + 100

Event(op) == [op |-> op, message_id |-> 0, text |-> None, entities |-> <<>>,
              reply_markup |-> NoMarkup]
Call(op, mid, text, entities, reply_markup) ==
    [op |-> op, message_id |-> mid, text |-> text, entities |-> entities,
     reply_markup |-> reply_markup]

original_text(cp) == IF cp.text # None THEN cp.text ELSE cp.caption

\* "Validate settings based on type"
watermark_configured(wm) ==
    IF wm.type = "text" THEN wm.config \notin {None, <<>>, NotSet}
    ELSE IF wm.type \in {"image", "animation"}
    THEN ~(wm.file_id = None /\ wm.file_path = None)
    ELSE TRUE

reaction_active(cfg) == cfg.auto_reactions.status = "active"

\* "Handle Auto Reactions", the last step of the normal path
AfterEdit(fr, log) ==
    IF reaction_active(ConfigAt(fr.channel_config))
    THEN [handler |-> [fr EXCEPT !.pc = "set_message_reaction"],
          calls |-> Append(log, Call("set_message_reaction", channel_post.message_id,
                                     None, <<>>, NoMarkup))]
    ELSE [handler |-> [fr EXCEPT !.pc = "returned"], calls |-> log]

\* an edit whatever was composed
always_changed(cp, text, entities, markup) == TRUE

\* "Edit the message if anything has changed": caption_changed or
\* markup_changed, compared by structure
anything_changed(cp, text, entities, markup) ==
    LET caption_changed == text # original_text(cp) \/ entities # cp.entities
        markup_changed == markup # cp.reply_markup
    IN  caption_changed \/ markup_changed

\* "Handle normal editing for buttons, captions, reactions": compose, then
\* edit the post if anything has changed
NormalEditing(cp, fr, log) ==
    LET cfg == ConfigAt(fr.channel_config)
        is_text_message == cp.text # None
        markup == ApplyAutoButtons(cfg, cp.reply_markup)
        cap == ApplyAutoCaptions(cfg, original_text(cp), cp.entities)
        text == IF watermark_active(cfg) /\ cp.text \notin {None, <<>>}
                THEN (IF cap.text # None THEN cap.text \o separator ELSE <<>>)
                     \o <<"<bookmark>", " ">> \o cfg.auto_watermark.config
                ELSE cap.text
        fr1 == [fr EXCEPT !.final_text = text, !.final_entities = cap.entities,
                          !.final_reply_markup = markup]
        log1 == Append(log, Event("compose"))
    IN  IF anything_changed(cp, text, cap.entities, markup)
        THEN [handler |-> [fr1 EXCEPT !.pc = "edit_message"],
              calls |-> Append(log1,
                  IF is_text_message
                  THEN Call("edit_message_text", cp.message_id, text, cap.entities, markup)
                  ELSE Call("edit_message_caption", cp.message_id,
                            IF text \in {None, <<>>} THEN <<>> ELSE text,
                            cap.entities, markup))]
        ELSE AfterEdit(fr1, log1)

\* the frame when the watermark branch starts: caption, entities and markup
\* are composed, then download_telegram_file awaits get_file
MediaWatermarkStart(cp, p) ==
    LET cfg == ConfigAt(p)
        cap == ApplyAutoCaptions(cfg, original_text(cp), cp.entities)
    IN  [handler |-> [IdleHandler EXCEPT !.pc = "get_file", !.channel_config = p,
                         !.final_text = cap.text, !.final_entities = cap.entities,
                         !.final_reply_markup = ApplyAutoButtons(cfg, cp.reply_markup)],
         calls |-> << Event("compose"),
                      Call("get_file", cp.message_id, None, <<>>, NoMarkup) >>]

\* a new post without media_group_id: handle_channel_post from its entry to
\* its first await or its return
PostArrives(inp) ==
    /\ handler.pc = "idle"
    /\ next_message_id <= MaxPosts
    /\ LET cp == [message_id |-> next_message_id, chat_id |-> inp.chat_id,
                  kind |-> inp.kind, text |-> inp.text, caption |-> inp.caption,
                  entities |-> inp.entities, reply_markup |-> inp.reply_markup]
           p == FindConfig(cp.chat_id)
           r == IF p = <<0, 0>>
                THEN [handler |-> [IdleHandler EXCEPT !.pc = "returned"], calls |-> <<>>]
                ELSE IF watermark_active(ConfigAt(p)) /\ cp.kind \in MediaKinds
                THEN IF ~watermark_configured(ConfigAt(p).auto_watermark)
                     THEN [handler |-> [IdleHandler EXCEPT !.pc = "returned",
                                                          !.channel_config = p],
                           calls |-> <<>>]
                     ELSE MediaWatermarkStart(cp, p)
                ELSE NormalEditing(cp, [IdleHandler EXCEPT !.channel_config = p], <<>>)
       IN  /\ channel_post' = cp
           /\ handler' = r.handler
           /\ calls' = r.calls
    /\ next_message_id' = next_message_id + 1
    /\ UNCHANGED <<USER_CHANNELS, files>>

\* the messages of the exceptions the watermark branch can raise
TooLargeMsg == <<"File is too large", "Maximum size is 20 MB">>
TooBigMsg == <<"Bad Request:", "file is", "too big">>
TelegramErrorMsg == <<"Timed out">>
FFmpegErrorMsg == <<"FFmpeg failed">>
NoFileIdMsg == <<"No watermark file_id found">>

\* str.lower() of one token
Lower(t) == IF t = "File is too large" THEN "file is too large" ELSE t

\* "Check if it's a file size error"
is_size_error(error_msg) ==
    \E i \in 1..Len(error_msg) : Lower(error_msg[i]) \in {"too big", "file is too large"}

\* the text of the failure notice
error_details(error_msg) ==
    IF is_size_error(error_msg)
    THEN <<"<b>", "Watermarking Failed: File Too Large", "<b>",
           "Telegram bot API limit is 20MB for downloads">>
    ELSE <<"<b>", "Watermarking Failed", "<b>">> \o error_msg

\* the notice without its Markdown markers (the bold marker and the code
\* marker are the tokens "<b>" and "<code>")
Plain(text) == SelectSeq(text, LAMBDA t : t \notin {"<b>", "<code>"})

\* the except clause of the watermark branch: build the failure notice and
\* send it (Markdown)
WatermarkFailed(fr, fl, error_msg) ==
    /\ handler' = [fr EXCEPT !.pc = "send_notice", !.failed = TRUE]
    /\ calls' = Append(calls, Call("send_message", channel_post.message_id,
                                   error_details(error_msg), <<>>, NoMarkup))
    /\ files' = fl

\* the finally clause: unlink the downloaded and the watermarked file
CleanedUp(fl) == fl \ {handler.downloaded_file_path, handler.watermarked_file_path}

\* the reaction is set as soon as the transcoder is done
ReactBeforeReplace(fr, log, fl) ==
    [handler |-> [fr EXCEPT !.pc = "set_message_reaction_replaced"],
     calls |-> Append(Append(log, Event("watermarked")),
                      Call("set_message_reaction", channel_post.message_id,
                           None, <<>>, NoMarkup)),
     files |-> fl]

\* the transcoder has written the watermarked file: open it and replace
\* the post's media with edit_message_media, which carries the composed
\* caption, entities and markup
IssueReplace(fr, log, fl) ==
    [handler |-> [fr EXCEPT !.pc = "edit_message_media"],
     calls |-> Append(Append(log, Event("watermarked")),
                      Call("edit_message_media", channel_post.message_id,
                           fr.final_text, fr.final_entities, fr.final_reply_markup)),
     files |-> fl]

\* the transcoder returns into the handler
Transcoded(result, fr, log, fl) ==
    IF result = "ok"
    THEN LET r == IssueReplace(fr, log, fl \cup {fr.watermarked_file_path})
         IN  /\ handler' = r.handler
             /\ calls' = r.calls
             /\ files' = r.files
    ELSE WatermarkFailed(fr, IF result = "failed_with_output"
                             THEN fl \cup {fr.watermarked_file_path} ELSE fl,
                         FFmpegErrorMsg)

\* no size check at all
never_exceeds(file_size_mb, cap) == FALSE

\* "if file_size_mb > max_size_mb"
exceeds_cap(file_size_mb, cap) == file_size_mb > cap

\* download_telegram_file: get_file returns the file with its size, or is
\* rejected; a file above the cap raises before anything is written
H_GetFileReturns(result, file_size_mb) ==
    /\ handler.pc = "get_file"
    /\ IF result = "ok"
       THEN IF exceeds_cap(file_size_mb, max_size_mb)
            THEN WatermarkFailed([handler EXCEPT !.file_size_mb = file_size_mb],
                                 files, TooLargeMsg)
            ELSE /\ handler' = [handler EXCEPT !.pc = "download_to_drive",
                                               !.file_size_mb = file_size_mb]
                 /\ calls' = Append(calls, Call("download_to_drive",
                                                channel_post.message_id,
                                                None, <<>>, NoMarkup))
                 /\ UNCHANGED files
       ELSE WatermarkFailed(handler, files,
                            IF result = "too_big" THEN TooBigMsg ELSE TelegramErrorMsg)
    /\ UNCHANGED <<USER_CHANNELS, channel_post, next_message_id>>

WatermarkTempFile(ch_id) == TempFile("watermark_temp", 0, ch_id)

\* the media file is on disk; pick the executor by watermark type
H_DownloadReturns(result) ==
    /\ handler.pc = "download_to_drive"
    /\ LET mid == channel_post.message_id
           wm == ConfigAt(handler.channel_config).auto_watermark
           dl == TempFile("downloaded", mid, 0)
           fr == [handler EXCEPT !.downloaded_file_path = dl,
                                 !.watermarked_file_path = TempFile("watermarked", mid, 0)]
           fl == files \cup {dl}
       IN  IF result # "ok" THEN WatermarkFailed(handler, files, TelegramErrorMsg)
           ELSE IF wm.type \in {"image", "animation"} /\ channel_post.kind # "animation"
           THEN IF wm.file_path # None /\ CacheFile(channel_post.chat_id) \in files
                THEN \* apply_image_watermark starts the transcoder
                     /\ handler' = [fr EXCEPT !.pc = "apply_image_watermark",
                            !.ffmpeg_command = Compile("apply_image_watermark",
                                                       channel_post, wm)]
                     /\ calls' = Append(calls, Event("apply_image_watermark"))
                     /\ files' = fl
                ELSE IF wm.file_id = None
                THEN WatermarkFailed(fr, fl, NoFileIdMsg)
                ELSE /\ handler' = [fr EXCEPT !.pc = "watermark_get_file"]
                     /\ calls' = Append(calls, Call("get_file", 0, None, <<>>, NoMarkup))
                     /\ files' = fl
           ELSE /\ handler' = [fr EXCEPT !.pc = "apply_watermark",
                       !.ffmpeg_command = Compile("apply_watermark", channel_post, wm)]
                /\ calls' = Append(calls, Event("apply_watermark"))
                /\ files' = fl
    /\ UNCHANGED <<USER_CHANNELS, channel_post, next_message_id>>

\* re-download of a missing watermark source: get_file returns
H_WatermarkGetFileReturns(result) ==
    /\ handler.pc = "watermark_get_file"
    /\ IF result = "ok"
       THEN /\ handler' = [handler EXCEPT !.pc = "watermark_download"]
            /\ calls' = Append(calls, Call("download_to_drive", 0, None, <<>>, NoMarkup))
            /\ UNCHANGED files
       ELSE WatermarkFailed(handler, files, TelegramErrorMsg)
    /\ UNCHANGED <<USER_CHANNELS, channel_post, next_message_id>>

\* re-download of a missing watermark source: the file is written to
\* watermark_<ch_id>_temp.png, then apply_image_watermark runs
H_WatermarkDownloadReturns(result) ==
    /\ handler.pc = "watermark_download"
    /\ IF result = "ok"
       THEN /\ handler' = [handler EXCEPT !.pc = "apply_image_watermark",
                   !.ffmpeg_command = Compile("apply_image_watermark", channel_post,
                       ConfigAt(handler.channel_config).auto_watermark)]
            /\ calls' = Append(calls, Event("apply_image_watermark"))
            /\ files' = files \cup {WatermarkTempFile(channel_post.chat_id)}
       ELSE WatermarkFailed(handler, files, TelegramErrorMsg)
    /\ UNCHANGED <<USER_CHANNELS, channel_post, next_message_id>>

\* subprocess.run returns in apply_image_watermark: the process has ended,
\* or 300 seconds have passed ("timeout": TimeoutExpired)
H_ImageWatermarkReturns(result) ==
    /\ handler.pc = "apply_image_watermark"
    /\ Transcoded(IF result = "timeout" THEN "failed" ELSE result, handler, calls, files)
    /\ UNCHANGED <<USER_CHANNELS, channel_post, next_message_id>>

\* apply_watermark (text watermark) returns
H_ApplyWatermarkReturns(result) ==
    /\ handler.pc = "apply_watermark"
    /\ Transcoded(result, handler, calls, files)
    /\ UNCHANGED <<USER_CHANNELS, channel_post, next_message_id>>

\* control goes on to the normal path after the replace
falls_through_after_replace == FALSE

\* the handler returns after the replace ("return  # Exit handler")
returns_after_replace == TRUE

\* the post is replaced: react if the rule is active, then return through
\* the finally clause
AfterReplace(fr, log) ==
    IF reaction_active(ConfigAt(fr.channel_config))
    THEN /\ handler' = [fr EXCEPT !.pc = "sleep"]
         /\ calls' = log
         /\ UNCHANGED files
    ELSE /\ files' = CleanedUp(files)
         /\ IF returns_after_replace
            THEN handler' = [fr EXCEPT !.pc = "returned"] /\ calls' = log
            ELSE LET r == NormalEditing(channel_post, fr, log)
                 IN  handler' = r.handler /\ calls' = r.calls

H_EditMediaReturns(result) ==
    /\ handler.pc = "edit_message_media"
    /\ IF result = "ok"
       THEN AfterReplace([handler EXCEPT !.edited_message_id = channel_post.message_id],
                         Append(calls, Event("replaced")))
       ELSE /\ handler' = [handler EXCEPT !.pc = "delete_message"]
            /\ calls' = Append(calls, Call("delete_message", channel_post.message_id,
                                           None, <<>>, NoMarkup))
            /\ UNCHANGED files
    /\ UNCHANGED <<USER_CHANNELS, channel_post, next_message_id>>

SendOp(kind) == IF kind = "photo" THEN "send_photo"
                ELSE IF kind = "video" THEN "send_video" ELSE "send_animation"

\* delete_message returns (a failure is ignored): send the media anew
H_DeleteReturns(result) ==
    /\ handler.pc = "delete_message"
    /\ handler' = [handler EXCEPT !.pc = "send_media"]
    /\ calls' = Append(IF result = "ok" THEN calls
                       ELSE Append(calls, Event("delete_failed")),
                       Call(SendOp(channel_post.kind),
                            NewMessageId(channel_post.message_id),
                            handler.final_text, handler.final_entities,
                            handler.final_reply_markup))
    /\ UNCHANGED <<USER_CHANNELS, channel_post, next_message_id, files>>

H_SendMediaReturns(result) ==
    /\ handler.pc = "send_media"
    /\ IF result = "ok"
       THEN AfterReplace([handler EXCEPT !.edited_message_id =
                                             NewMessageId(channel_post.message_id)],
                         Append(calls, Event("replaced")))
       ELSE WatermarkFailed(handler, files, TelegramErrorMsg)
    /\ UNCHANGED <<USER_CHANNELS, channel_post, next_message_id>>

\* asyncio.sleep(0.5) is over: set the reaction on the replaced post
H_SleepReturns ==
    /\ handler.pc = "sleep"
    /\ handler' = [handler EXCEPT !.pc = "set_message_reaction_replaced"]
    /\ calls' = Append(calls, Call("set_message_reaction", handler.edited_message_id,
                                   None, <<>>, NoMarkup))
    /\ UNCHANGED <<USER_CHANNELS, channel_post, next_message_id, files>>

\* the reaction call returns (a rejection is logged): return, finally
H_ReactionAfterReplaceReturns(result) ==
    /\ handler.pc = "set_message_reaction_replaced"
    /\ files' = CleanedUp(files)
    /\ IF returns_after_replace
       THEN handler' = [handler EXCEPT !.pc = "returned"] /\ UNCHANGED calls
       ELSE LET r == NormalEditing(channel_post, handler, calls)
            IN  handler' = r.handler /\ calls' = r.calls
    /\ UNCHANGED <<USER_CHANNELS, channel_post, next_message_id>>

\* after the except clause and the finally clause, control reaches the
\* statements after the watermark branch
AfterNotice ==
    LET r == NormalEditing(channel_post, handler, calls)
    IN  /\ files' = CleanedUp(files)
        /\ handler' = r.handler
        /\ calls' = r.calls

\* the Markdown notice returns: sent, or rejected and sent again as plain text
H_NoticeReturns(result) ==
    /\ handler.pc = "send_notice"
    /\ IF result = "ok"
       THEN AfterNotice
       ELSE /\ handler' = [handler EXCEPT !.pc = "send_notice_plain"]
            /\ calls' = Append(calls, Call("send_message", channel_post.message_id,
                                           Plain(calls[Len(calls)].text), <<>>,
                                           NoMarkup))
            /\ UNCHANGED files
    /\ UNCHANGED <<USER_CHANNELS, channel_post, next_message_id>>

H_PlainNoticeReturns(result) ==
    /\ handler.pc = "send_notice_plain"
    /\ AfterNotice
    /\ UNCHANGED <<USER_CHANNELS, channel_post, next_message_id>>

\* edit_message_text / edit_message_caption returns (a rejection is logged)
H_EditReturns(result) ==
    /\ handler.pc = "edit_message"
    /\ LET r == AfterEdit(handler, calls)
       IN  handler' = r.handler /\ calls' = r.calls
    /\ UNCHANGED <<USER_CHANNELS, channel_post, next_message_id, files>>

\* a rejected reaction call is issued again
ReactionRetried(result, fr, log) ==
    IF result = "ok"
    THEN [handler |-> [fr EXCEPT !.pc = "returned"], calls |-> log]
    ELSE [handler |-> fr,
          calls |-> Append(log, Call("set_message_reaction", channel_post.message_id,
                                     None, <<>>, NoMarkup))]

\* the reaction call is over: accepted, or rejected and logged; the
\* handler returns
ReactionDone(result, fr, log) ==
    [handler |-> [fr EXCEPT !.pc = "returned"], calls |-> log]

H_ReactionReturns(result) ==
    /\ handler.pc = "set_message_reaction"
    /\ LET r == ReactionDone(result, handler, calls)
       IN  handler' = r.handler /\ calls' = r.calls
    /\ UNCHANGED <<USER_CHANNELS, channel_post, next_message_id, files>>

\* the application is done with the update and takes the next one
HandlerReturns ==
    /\ handler.pc = "returned"
    /\ handler' = IdleHandler
    /\ channel_post' = NoPost
    /\ calls' = <<>>
    /\ UNCHANGED <<USER_CHANNELS, next_message_id, files>>

\* ------------------------------------------------ the single-post system
ImageWatermark(file_id, file_path) ==
    [status |-> "active", type |-> "image", config |-> <<"Image">>,
     file_id |-> file_id, file_path |-> file_path]

PostRegistries ==
    { \* every rule active, text watermark
      << [uid |-> 1, channels |-> << ChannelConfig(10,
             WatermarkBlock("active", "text", <<"w">>),
             ActiveButton, ActiveCaption, "active") >>] >>,
      \* only the watermark rule active
      << [uid |-> 1, channels |-> << ChannelConfig(10,
             WatermarkBlock("active", "text", <<"w">>),
             InactiveButton, InactiveCaption, "inactive") >>] >>,
      \* image watermark with a cached source file, reaction active
      << [uid |-> 1, channels |-> << ChannelConfig(10,
             ImageWatermark(<<"f">>, <<"cache">>),
             InactiveButton, InactiveCaption, "active") >>] >>,
      \* image watermark whose source download failed when it was set
      << [uid |-> 1, channels |-> << ChannelConfig(10,
             ImageWatermark(<<"f">>, None),
             InactiveButton, ActiveCaption, "inactive") >>] >>,
      \* watermark inactive, caption and reaction active
      << [uid |-> 1, channels |-> << ChannelConfig(10,
             WatermarkBlock("inactive", "text", NotSet),
             InactiveButton, ActiveCaption, "active") >>] >>,
      \* button rule active with no well-formed button, caption rule active
      \* and never configured
      << [uid |-> 1, channels |-> << ChannelConfig(10,
             WatermarkBlock("inactive", "text", NotSet),
             [status |-> "active", config |-> <<"B", " - ", "popup:", "hi", "&&", "C">>],
             [status |-> "active", config |-> NotSet, entities |-> <<>>],
             "inactive") >>] >>,
      \* button rule active and never configured
      << [uid |-> 1, channels |-> << ChannelConfig(10,
             WatermarkBlock("inactive", "text", NotSet),
             [status |-> "active", config |-> NotSet],
             InactiveCaption, "inactive") >>] >>,
      \* chat 10 registered by two owners with different rules
      << [uid |-> 1, channels |-> << ChannelConfig(30,
             WatermarkBlock("inactive", "text", NotSet),
             ActiveButton, InactiveCaption, "inactive"),
           ChannelConfig(10,
             WatermarkBlock("inactive", "text", NotSet),
             InactiveButton, ActiveCaption, "inactive") >>],
         [uid |-> 2, channels |-> << ChannelConfig(10,
             WatermarkBlock("inactive", "text", NotSet),
             ActiveButton, InactiveCaption, "active") >>] >>,
      \* all four rules inactive; chat 10 registered by the second owner
      << [uid |-> 1, channels |-> <<>>],
         [uid |-> 2, channels |-> << ChannelConfig(10,
             WatermarkBlock("inactive", "text", NotSet),
             InactiveButton, InactiveCaption, "inactive") >>] >> }

PostInputs ==
    { [chat_id |-> 10, kind |-> "text", text |-> <<"t">>, caption |-> None,
       entities |-> <<>>, reply_markup |-> NoMarkup],
      [chat_id |-> 10, kind |-> "photo", text |-> None, caption |-> <<"a", "<gem>">>,
       entities |-> << [type |-> "italic", offset |-> 0, length |-> 1] >>,
       reply_markup |-> NoMarkup],
      [chat_id |-> 10, kind |-> "video", text |-> None, caption |-> None,
       entities |-> <<>>, reply_markup |-> NoMarkup],
      [chat_id |-> 10, kind |-> "animation", text |-> None, caption |-> None,
       entities |-> <<>>, reply_markup |-> NoMarkup],
      [chat_id |-> 10, kind |-> "sticker", text |-> None, caption |-> None,
       entities |-> <<>>, reply_markup |-> NoMarkup],
      [chat_id |-> 20, kind |-> "photo", text |-> None, caption |-> None,
       entities |-> <<>>, reply_markup |-> NoMarkup] }

InitPost ==
    /\ USER_CHANNELS \in PostRegistries
    /\ files \in {{}, {CacheFile(10)}}
    /\ channel_post = NoPost
    /\ handler = IdleHandler
    /\ calls = <<>>
    /\ media_groups = <<>>
    /\ job_queue = [g \in Albums |-> 0]
    /\ jobs = <<>>
    /\ next_message_id = 1
    /\ item = <<>>
    /\ created = [g \in Albums |-> 0]
    /\ deleted = [g \in Albums |-> 0]
    /\ armed = [g \in Albums |-> 0]
    /\ firings = [g \in Albums |-> [total |-> 0, absent |-> 0, skipped |-> 0, refired |-> 0]]
    /\ toggles = [b \in RuleBlocks |-> 0]
    /\ InitConversation

\* sizes get_file reports, in MB: at the cap and above it
FileSizes == {max_size_mb, max_size_mb + 5}

TranscodeResults == {"ok", "failed", "failed_with_output"}

NextPost ==
    \/ (\E inp \in PostInputs : PostArrives(inp)) /\ UNCHANGED <<album_vars, admin_vars>>
    \/ (\E result \in {"ok", "too_big", "error"}, file_size_mb \in FileSizes :
          H_GetFileReturns(result, file_size_mb)) /\ UNCHANGED <<album_vars, admin_vars>>
    \/ (\E result \in {"ok", "error"} : H_DownloadReturns(result)) /\ UNCHANGED <<album_vars, admin_vars>>
    \/ (\E result \in {"ok", "error"} : H_WatermarkGetFileReturns(result)) /\ UNCHANGED <<album_vars, admin_vars>>
    \/ (\E result \in {"ok", "error"} : H_WatermarkDownloadReturns(result)) /\ UNCHANGED <<album_vars, admin_vars>>
    \/ (\E result \in TranscodeResults \cup {"timeout"} :
          H_ImageWatermarkReturns(result)) /\ UNCHANGED <<album_vars, admin_vars>>
    \/ (\E result \in TranscodeResults : H_ApplyWatermarkReturns(result)) /\ UNCHANGED <<album_vars, admin_vars>>
    \/ (\E result \in {"ok", "rejected"} : H_EditMediaReturns(result)) /\ UNCHANGED <<album_vars, admin_vars>>
    \/ (\E result \in {"ok", "error"} : H_DeleteReturns(result)) /\ UNCHANGED <<album_vars, admin_vars>>
    \/ (\E result \in {"ok", "error"} : H_SendMediaReturns(result)) /\ UNCHANGED <<album_vars, admin_vars>>
    \/ (H_SleepReturns) /\ UNCHANGED <<album_vars, admin_vars>>
    \/ (\E result \in {"ok", "rejected"} : H_ReactionAfterReplaceReturns(result)) /\ UNCHANGED <<album_vars, admin_vars>>
    \/ (\E result \in {"ok", "error"} : H_NoticeReturns(result)) /\ UNCHANGED <<album_vars, admin_vars>>
    \/ (\E result \in {"ok", "error"} : H_PlainNoticeReturns(result)) /\ UNCHANGED <<album_vars, admin_vars>>
    \/ (\E result \in {"ok", "rejected"} : H_EditReturns(result)) /\ UNCHANGED <<album_vars, admin_vars>>
    \/ (\E result \in {"ok", "rejected"} : H_ReactionReturns(result)) /\ UNCHANGED <<album_vars, admin_vars>>
    \/ (HandlerReturns) /\ UNCHANGED <<album_vars, admin_vars>>

SpecPost == InitPost /\ [][NextPost]_vars

\* ------------------------------------------- the compilers on their inputs
\* quality and effect_speed as the settings menus store them, each over its
\* whole range
CompileSettings ==
    {[quality |-> q, effect_speed |-> 50] : q \in 1..100}
        \cup {[quality |-> 75, effect_speed |-> s] : s \in 1..100}

\* chat 10 with an active watermark, of text with a scrolling effect or of
\* an image with a diagonal one, and the stored quality and effect_speed
CompileRegistries ==
    { << [uid |-> 1, channels |-> << ChannelConfig(10,
            [quality |-> st.quality, effect |-> wm.effect,
             effect_speed |-> st.effect_speed] @@ wm.block,
            InactiveButton, ActiveCaption, "active") >>] >> :
        st \in CompileSettings,
        wm \in { [block |-> WatermarkBlock("active", "text", <<"w">>),
                  effect |-> "scroll_left"],
                 [block |-> ImageWatermark(<<"f">>, <<"cache">>),
                  effect |-> "move_diagonal_dr"] } }

InitCompile ==
    /\ USER_CHANNELS \in CompileRegistries
    /\ files \in {{}, {CacheFile(10)}}
    /\ channel_post = NoPost
    /\ handler = IdleHandler
    /\ calls = <<>>
    /\ media_groups = <<>>
    /\ job_queue = [g \in Albums |-> 0]
    /\ jobs = <<>>
    /\ next_message_id = 1
    /\ item = <<>>
    /\ created = [g \in Albums |-> 0]
    /\ deleted = [g \in Albums |-> 0]
    /\ armed = [g \in Albums |-> 0]
    /\ firings = [g \in Albums |-> [total |-> 0, absent |-> 0, skipped |-> 0, refired |-> 0]]
    /\ toggles = [b \in RuleBlocks |-> 0]
    /\ InitConversation

SpecCompile == InitCompile /\ [][NextPost]_vars

\* ------------------------------------------------- button_router: toggles
RECURSIVE SumToggles(_)
SumToggles(S) == IF S = {} THEN 0
                 ELSE LET b == CHOOSE x \in S : TRUE
                      IN  toggles[b] + SumToggles(S \ {b})

\* a toggle that only ever activates
new_status_active(current_status) == "active"

\* new_status = "active" if current_status == "inactive" else "inactive"
new_status(current_status) ==
    IF current_status = "inactive" THEN "active" ELSE "inactive"

\* the owner with index k presses "Activate"/"Deactivate" of a rule block of
\* channel ch_id: the status flips in that owner's record and is saved;
\* the settings menu the handler then shows again is not part of the state
ToggleStatus(k, ch_id, block) ==
    /\ handler.pc = "idle"      \* updates are handled one at a time
    /\ SumToggles(RuleBlocks) < MaxToggles
    /\ k \in 1..Len(USER_CHANNELS)
    /\ LET c == ScanChannels(USER_CHANNELS[k].channels, ch_id, 1)
       IN  /\ c # 0
           /\ USER_CHANNELS' = [USER_CHANNELS EXCEPT
                  ![k].channels[c][block].status = new_status(@)]
    /\ toggles' = [toggles EXCEPT ![block] = @ + 1]
    /\ DATA_FILE' = json_dump(USER_CHANNELS')      \* save_data()
    /\ UNCHANGED <<files, cached, next_message_id, post_vars, album_vars, conv_vars>>

\* the owner with index k presses "Enabled" or "Disable" of the reaction
\* rule: the status is set to the one pressed unless it is that already
SetReactions(k, ch_id, status) ==
    /\ handler.pc = "idle"
    /\ SumToggles(RuleBlocks) < MaxToggles
    /\ k \in 1..Len(USER_CHANNELS)
    /\ LET c == ScanChannels(USER_CHANNELS[k].channels, ch_id, 1)
       IN  /\ c # 0
           /\ USER_CHANNELS[k].channels[c].auto_reactions.status # status
           /\ USER_CHANNELS' = [USER_CHANNELS EXCEPT
                  ![k].channels[c].auto_reactions.status = status]
    /\ toggles' = [toggles EXCEPT !["auto_reactions"] = @ + 1]
    /\ DATA_FILE' = json_dump(USER_CHANNELS')      \* save_data()
    /\ UNCHANGED <<files, cached, next_message_id, post_vars, album_vars, conv_vars>>

\* a channel as registered (every rule inactive) whose rules were configured
ConfiguredRegistries ==
    { << [uid |-> 1, channels |-> << ChannelConfig(10,
             WatermarkBlock("inactive", "text", <<"w">>),
             [ActiveButton EXCEPT !.status = "inactive"],
             [ActiveCaption EXCEPT !.status = "inactive"], "inactive") >>] >>,
      << [uid |-> 1, channels |-> << ChannelConfig(10,
             [ImageWatermark(<<"f">>, None) EXCEPT !.status = "inactive"],
             [ActiveButton EXCEPT !.status = "inactive"],
             InactiveCaption, "inactive") >>] >> }

InitToggle ==
    /\ USER_CHANNELS \in ConfiguredRegistries
    /\ files = {}
    /\ channel_post = NoPost
    /\ handler = IdleHandler
    /\ calls = <<>>
    /\ media_groups = <<>>
    /\ job_queue = [g \in Albums |-> 0]
    /\ jobs = <<>>
    /\ next_message_id = 1
    /\ item = <<>>
    /\ created = [g \in Albums |-> 0]
    /\ deleted = [g \in Albums |-> 0]
    /\ armed = [g \in Albums |-> 0]
    /\ firings = [g \in Albums |-> [total |-> 0, absent |-> 0, skipped |-> 0, refired |-> 0]]
    /\ toggles = [b \in RuleBlocks |-> 0]
    /\ InitConversation

NextToggle ==
    \/ NextPost
    \/ \E k \in 1..2, block \in Blocks : ToggleStatus(k, 10, block)
    \/ \E k \in 1..2, status \in {"active", "inactive"} : SetReactions(k, 10, status)

SpecToggle == InitToggle /\ [][NextToggle]_vars

\* ------------------------------------------ registration and removal
MaxUpdates == 3

MAIN_ADMIN_ID == 1

\* ch_info["auto_watermark"] of a new record; the keys the code adds later
\* (file_id, file_path) are absent, written None; type is absent too and
\* written "text", what every read of the key defaults to
NewWatermark ==
    [status |-> "inactive", type |-> "text", config |-> NotSet,
     file_id |-> None, file_path |-> None,
     size |-> 50, transparency |-> 50, quality |-> 75, rotation |-> 0,
     effect |-> "none", effect_speed |-> 1]

\* ch_info: the record a registration appends
ch_info(id) == ChannelConfig(id, NewWatermark, InactiveButton, InactiveCaption, "inactive")

\* a lookup that takes the first owner for every user
FirstOwner(registry, user_id, k) == IF registry = <<>> THEN 0 ELSE 1

\* the position of user_id in USER_CHANNELS, 0 if it is not a key
RECURSIVE OwnerIndex(_, _, _)
OwnerIndex(registry, user_id, k) ==
    IF k > Len(registry) THEN 0
    ELSE IF registry[k].uid = user_id THEN k
    ELSE OwnerIndex(registry, user_id, k + 1)

\* USER_CHANNELS.get(user_id, [])
ChannelsOf(user_id) ==
    IF OwnerIndex(USER_CHANNELS, user_id, 1) = 0 THEN <<>>
    ELSE USER_CHANNELS[OwnerIndex(USER_CHANNELS, user_id, 1)].channels

\* a lookup that takes the first record of the list whatever its id
first_of_list(user_id, ch_id) == IF ChannelsOf(user_id) = <<>> THEN 0 ELSE 1

\* next((c for c in channels if c["id"] == ch_id), None), as a position
Chosen(user_id, ch_id) == ScanChannels(ChannelsOf(user_id), ch_id, 1)

\* USER_CHANNELS.setdefault(user_id, [])
SetDefault(registry, user_id) ==
    IF OwnerIndex(registry, user_id, 1) = 0
    THEN Append(registry, [uid |-> user_id, channels |-> <<>>])
    ELSE registry

Answer(user_id, text) == [to |-> user_id, text |-> text, data |-> <<>>]

\* a registration that never looks for the id in the owner's list
never_saved(channels, id) == FALSE

\* any(c["id"] == ch_info["id"] for c in USER_CHANNELS[user_id])
already_saved(channels, id) == \E n \in 1..Len(channels) : channels[n].id = id

\* handle_forwarded_message: the user forwards a post; origin is the chat
\* of a MessageOriginChannel, or 0 for any other origin
ForwardedMessage(user_id, origin) ==
    /\ handler.pc = "idle"      \* updates are handled one at a time
    /\ updates < MaxUpdates
    /\ updates' = updates + 1
    /\ IF origin = 0
       THEN /\ reply' = Answer(user_id, "could_not_detect")
            /\ UNCHANGED <<USER_CHANNELS, DATA_FILE>>
       ELSE LET registry == SetDefault(USER_CHANNELS, user_id)
                k == OwnerIndex(registry, user_id, 1)
            IN  IF already_saved(registry[k].channels, origin)
                THEN /\ reply' = Answer(user_id, "already_saved")
                     /\ USER_CHANNELS' = registry
                     /\ UNCHANGED DATA_FILE
                ELSE /\ USER_CHANNELS' =
                            [registry EXCEPT ![k].channels = Append(@, ch_info(origin))]
                     /\ DATA_FILE' = json_dump(USER_CHANNELS')      \* save_data()
                     /\ reply' = Answer(user_id, "saved")
    /\ UNCHANGED <<files, cached, next_message_id, post_vars, album_vars, toggles, next_step>>

\* [ch for ch in channels if ch["id"] != ch_id_to_remove]
RECURSIVE Without(_, _)
Without(channels, id) ==
    IF channels = <<>> THEN <<>>
    ELSE (IF Head(channels).id # id THEN <<Head(channels)>> ELSE <<>>)
         \o Without(Tail(channels), id)

\* button_router, "remove_yes_": the user confirms the removal of a channel
RemoveChannel(user_id, ch_id_to_remove) ==
    /\ handler.pc = "idle"
    /\ updates < MaxUpdates
    /\ updates' = updates + 1
    /\ LET k == OwnerIndex(USER_CHANNELS, user_id, 1)
       IN  IF k # 0
           THEN /\ USER_CHANNELS' = [USER_CHANNELS EXCEPT
                       ![k].channels = Without(@, ch_id_to_remove)]
                /\ DATA_FILE' = json_dump(USER_CHANNELS')           \* save_data()
           ELSE UNCHANGED <<USER_CHANNELS, DATA_FILE>>
    /\ reply' = Answer(user_id, "removed")
    /\ UNCHANGED <<files, cached, next_message_id, post_vars, album_vars, toggles, next_step>>

\* ------------------------------------- button_router: prompts and menus
\* the configuration fields a step token names
TextFields == {"set_auto_button_config", "set_auto_watermark_config",
               "set_auto_caption_config"}
MenuFields == {"set_watermark_size_value", "set_watermark_transparency_value",
               "set_watermark_quality_value"}
EarlyFields == {"set_watermark_rotation_value", "set_effect_speed_value"}
NumericFields == MenuFields \cup EarlyFields
Fields == TextFields \cup NumericFields

Step(field, ch_id) == [field |-> field, ch_id |-> ch_id]

\* the user presses the button that asks for a value: "change_..._config_",
\* "set_watermark_size_" (and transparency, quality), "set_rot_custom_",
\* "set_effect_speed_".  sent: whether edit_message_text was accepted; a
\* TelegramError ends button_router in its except clause.
Prompt(user_id, field, ch_id, sent) ==
    /\ handler.pc = "idle"
    /\ updates < MaxUpdates
    /\ updates' = updates + 1
    /\ IF field \in MenuFields /\ Chosen(user_id, ch_id) = 0
       THEN \* send_watermark_size_settings: "if not chosen"
            /\ reply' = Answer(user_id, "channel_not_found")
            /\ UNCHANGED next_step
       ELSE IF field \in EarlyFields
       THEN \* the token is stored before the prompt is sent
            /\ next_step' = [next_step EXCEPT ![user_id] = Step(field, ch_id)]
            /\ reply' = Answer(user_id, IF sent = "ok" THEN "prompt" ELSE "none")
       ELSE IF sent = "ok"
       THEN /\ next_step' = [next_step EXCEPT ![user_id] = Step(field, ch_id)]
            /\ reply' = Answer(user_id, "prompt")
       ELSE /\ reply' = Answer(user_id, "none")
            /\ UNCHANGED next_step
    /\ UNCHANGED <<USER_CHANNELS, DATA_FILE, files, cached, next_message_id, post_vars,
                   album_vars, toggles>>

\* the user presses Back or Cancel under a prompt, or any button that only
\* shows a menu ("channel_settings_auto_watermark_", "set_watermark_effect_",
\* "show_channels", "back_to_main", ...)
Navigate(user_id, ch_id) ==
    /\ handler.pc = "idle"
    /\ updates < MaxUpdates
    /\ updates' = updates + 1
    /\ reply' = Answer(user_id, IF Chosen(user_id, ch_id) = 0
                                THEN "channel_not_found" ELSE "menu")
    /\ UNCHANGED <<USER_CHANNELS, DATA_FILE, files, cached, next_message_id, post_vars,
                   album_vars, toggles, next_step>>

\* the effects of the menu: those for text watermarks only, and the others
TextEffects == {"scroll_left", "fade"}
Effects == TextEffects \cup {"none", "move_diagonal_dr"}

\* watermark_type = chosen.get("auto_watermark", {}).get("type", "text")
\* (a record without the key is modelled with type "text", what every read
\* of the key defaults to)
watermark_type(wm) == wm.type

\* send_watermark_effect_settings: the buttons of the effect menu
OfferedEffects(wm) ==
    IF watermark_type(wm) = "text" THEN Effects ELSE Effects \ TextEffects

\* "set_effect_<effect>_": the user presses an effect of the effect menu
\* shown for the record as it is
SetEffect(user_id, ch_id, effect) ==
    /\ handler.pc = "idle"
    /\ updates < MaxUpdates
    /\ Chosen(user_id, ch_id) # 0
    /\ effect \in OfferedEffects(ChannelsOf(user_id)[Chosen(user_id, ch_id)].auto_watermark)
    /\ updates' = updates + 1
    /\ USER_CHANNELS' = [USER_CHANNELS EXCEPT
           ![OwnerIndex(USER_CHANNELS, user_id, 1)]
               .channels[Chosen(user_id, ch_id)].auto_watermark.effect = effect]
    /\ DATA_FILE' = json_dump(USER_CHANNELS')                   \* save_data()
    /\ reply' = Answer(user_id, "menu")
    /\ UNCHANGED <<files, cached, next_message_id, post_vars, album_vars, toggles, next_step>>

\* the angles of the rotation menu
RotationButtons == {0, 45, 270}

\* "set_rot_<angle>_": the user presses an angle of the rotation menu
SetRotation(user_id, ch_id, rotation) ==
    /\ handler.pc = "idle"
    /\ updates < MaxUpdates
    /\ Chosen(user_id, ch_id) # 0
    /\ updates' = updates + 1
    /\ USER_CHANNELS' = [USER_CHANNELS EXCEPT
           ![OwnerIndex(USER_CHANNELS, user_id, 1)]
               .channels[Chosen(user_id, ch_id)].auto_watermark.rotation = rotation]
    /\ DATA_FILE' = json_dump(USER_CHANNELS')                   \* save_data()
    /\ reply' = Answer(user_id, "menu")
    /\ UNCHANGED <<files, cached, next_message_id, post_vars, album_vars, toggles, next_step>>

\* ---------------------------------------------------- handle_user_message
\* int(text): the characters of a text are its tokens
DigitValue == [c \in {"0", "1", "3", "5", "6", "9"} |->
                  CASE c = "0" -> 0 [] c = "1" -> 1 [] c = "3" -> 3
                    [] c = "5" -> 5 [] c = "6" -> 6 [] c = "9" -> 9]

RECURSIVE Digits(_, _)
Digits(str, acc) ==
    IF str = <<>> THEN acc ELSE Digits(Tail(str), 10 * acc + DigitValue[Head(str)])

\* a conversion that takes a text that is no number for 0
atoi(text) ==
    IF text = None THEN [raised |-> "TypeError", value |-> 0]
    ELSE IF text # <<>> /\ \A n \in 1..Len(text) : text[n] \in DOMAIN DigitValue
    THEN [raised |-> "none", value |-> Digits(text, 0)]
    ELSE [raised |-> "none", value |-> 0]

\* int(text) of a str: an optional sign and at least one digit, anything
\* else raises ValueError; of None it raises TypeError
int(text) ==
    IF text = None THEN [raised |-> "TypeError", value |-> 0]
    ELSE LET signed == text # <<>> /\ Head(text) \in {"-", "+"}
             body == IF signed THEN Tail(text) ELSE text
         IN  IF body = <<>> \/ \E n \in 1..Len(body) : body[n] \notin DOMAIN DigitValue
             THEN [raised |-> "ValueError", value |-> 0]
             ELSE [raised |-> "none",
                   value |-> IF signed /\ Head(text) = "-"
                             THEN 0 - Digits(body, 0) ELSE Digits(body, 0)]

\* the range check of each numeric field and the key it is stored under
Key(field) ==
    CASE field = "set_watermark_size_value" -> "size"
      [] field = "set_watermark_transparency_value" -> "transparency"
      [] field = "set_watermark_quality_value" -> "quality"
      [] field = "set_watermark_rotation_value" -> "rotation"
      [] field = "set_effect_speed_value" -> "effect_speed"

\* a check that lets every number through
AnyNumber(field, value) == TRUE

InRange(field, value) ==
    CASE field = "set_watermark_size_value" -> 1 <= value /\ value <= 100
      [] field = "set_watermark_transparency_value" -> 0 <= value /\ value <= 95
      [] field = "set_watermark_quality_value" -> 1 <= value /\ value <= 100
      [] field = "set_watermark_rotation_value" -> 0 <= value /\ value <= 360
      [] field = "set_effect_speed_value" -> 1 <= value /\ value <= 100

\* the watermark source files handle_user_message downloads
ImagePath == <<"cache">>
GifPath == <<"cache_gif">>

\* a message of a private chat that passes the filter of handle_user_message
\* (text, photo or animation, not a command, not forwarded)
Message(kind, text) ==
    [kind |-> kind, text |-> text, file_id |-> IF kind = "text" THEN None ELSE <<"f">>]

\* a photo or an animation with the identifier of its file
Media(kind, file_id) == [kind |-> kind, text |-> None, file_id |-> file_id]

\* handle_user_message.  download: the result of get_file and
\* download_to_drive for a photo or an animation; replied: whether
\* reply_text was accepted (a TelegramError leaves the handler at once).
\* dictionary keys that are popped are written None.
UserMessage(user_id, message, download, replied) ==
    /\ handler.pc = "idle"
    /\ updates < MaxUpdates
    /\ updates' = updates + 1
    /\ LET token == next_step[user_id]
           ch_id == token.ch_id
           k == OwnerIndex(USER_CHANNELS, user_id, 1)
           c == Chosen(user_id, ch_id)
           text == message.text
           cleared == [next_step EXCEPT ![user_id] = NoStep]
           \* the reply, and the token the statements after it delete
           Replied(t) == /\ reply' = Answer(user_id, IF replied = "ok" THEN t ELSE "error")
                         /\ next_step' = IF replied = "ok" THEN cleared ELSE next_step
       IN
       IF token = NoStep
       THEN \* no branch is taken
            /\ reply' = Answer(user_id, "none")
            /\ UNCHANGED <<USER_CHANNELS, DATA_FILE, files, cached, next_step>>
       ELSE IF c = 0
       THEN IF token.field = "set_auto_button_config" /\ text = None
            THEN /\ reply' = Answer(user_id, "send_text")
                 /\ UNCHANGED <<USER_CHANNELS, DATA_FILE, files, cached, next_step>>
            ELSE /\ Replied("channel_not_found")
                 /\ UNCHANGED <<USER_CHANNELS, DATA_FILE, files, cached>>
       ELSE IF token.field = "set_auto_button_config"
       THEN IF text = None
            THEN /\ reply' = Answer(user_id, "send_text")
                 /\ UNCHANGED <<USER_CHANNELS, DATA_FILE, files, cached, next_step>>
            ELSE /\ USER_CHANNELS' = [USER_CHANNELS EXCEPT
                        ![k].channels[c].auto_button.config = text]
                 /\ DATA_FILE' = json_dump(USER_CHANNELS')          \* save_data()
                 /\ Replied("updated")
                 /\ UNCHANGED <<files, cached, cached>>
       ELSE IF token.field = "set_auto_caption_config"
       THEN /\ USER_CHANNELS' = [USER_CHANNELS EXCEPT
                   ![k].channels[c].auto_captions.config = text,
                   ![k].channels[c].auto_captions.entities = <<>>]
            /\ DATA_FILE' = json_dump(USER_CHANNELS')               \* save_data()
            /\ Replied("updated")
            /\ UNCHANGED <<files, cached, cached>>
       ELSE IF token.field = "set_auto_watermark_config"
       THEN IF message.kind = "text"
            THEN /\ USER_CHANNELS' = [USER_CHANNELS EXCEPT
                        ![k].channels[c].auto_watermark.type = "text",
                        ![k].channels[c].auto_watermark.config = text,
                        ![k].channels[c].auto_watermark.file_id = None,
                        ![k].channels[c].auto_watermark.file_path = None]
                 \* reply_text comes before save_data
                 /\ DATA_FILE' = IF replied = "ok" THEN json_dump(USER_CHANNELS')
                                 ELSE DATA_FILE
                 /\ Replied("saved")
                 /\ UNCHANGED <<files, cached, cached>>
            ELSE LET type == IF message.kind = "photo" THEN "image" ELSE "animation"
                     path == IF message.kind = "photo" THEN ImagePath ELSE GifPath
                     ext == IF message.kind = "photo" THEN "png" ELSE "gif"
                     file == IF message.kind = "photo" THEN CacheFile(ch_id)
                             ELSE GifCacheFile(ch_id)
                     named == [USER_CHANNELS EXCEPT
                        ![k].channels[c].auto_watermark.type = type,
                        ![k].channels[c].auto_watermark.config =
                            IF message.kind = "photo" THEN <<"Image watermark">>
                            ELSE <<"GIF watermark">>,
                        ![k].channels[c].auto_watermark.file_id = message.file_id]
                 IN  IF download = "ok"
                     THEN /\ USER_CHANNELS' = [named EXCEPT
                                 ![k].channels[c].auto_watermark.file_path = path]
                          /\ files' = files \cup {file}
                          /\ cached' = [cached EXCEPT ![ch_id][ext] = message.file_id]
                          /\ DATA_FILE' = IF replied = "ok" THEN json_dump(USER_CHANNELS')
                                          ELSE DATA_FILE
                          /\ Replied("saved")
                     ELSE \* "Image saved but download failed", return
                          /\ USER_CHANNELS' = named
                          /\ reply' = Answer(user_id, "download_failed")
                          /\ UNCHANGED <<DATA_FILE, files, cached, next_step>>
       ELSE \* a numeric field
            LET number == int(text)
            IN  IF number.raised = "TypeError"
                THEN \* not caught by "except ValueError": the handler ends
                     \* and the error handler of the application answers
                     /\ reply' = Answer(user_id, "error")
                     /\ UNCHANGED <<USER_CHANNELS, DATA_FILE, files, cached, next_step>>
                ELSE IF number.raised = "ValueError"
                THEN /\ Replied("invalid_input")
                     /\ UNCHANGED <<USER_CHANNELS, DATA_FILE, files, cached>>
                ELSE IF InRange(token.field, number.value)
                THEN /\ USER_CHANNELS' = [USER_CHANNELS EXCEPT
                            ![k].channels[c].auto_watermark[Key(token.field)] = number.value]
                     /\ DATA_FILE' = json_dump(USER_CHANNELS')      \* save_data()
                     /\ Replied("updated")
                     /\ UNCHANGED <<files, cached, cached>>
                ELSE /\ Replied("out_of_range")
                     /\ UNCHANGED <<USER_CHANNELS, DATA_FILE, files, cached>>
    /\ UNCHANGED <<next_message_id, post_vars, album_vars, toggles>>

\* -------------------------------------------------------------- dump_data
\* the lines of the report for one record
ReportOf(ch) ==
    [id |-> ch.id, username |-> ch.username,
     active |-> {b \in RuleBlocks : ch[b].status = "active"}]

\* the report: every owner identifier and every record of the Registry
Report(registry) ==
    [k \in 1..Len(registry) |->
        [uid |-> registry[k].uid,
         channels |-> [n \in 1..Len(registry[k].channels) |->
                          ReportOf(registry[k].channels[n])]]]

\* a command that answers anyone
anyone_is_admin(user_id) == TRUE

\* user_id != main_admin_id
is_admin(user_id) == user_id = MAIN_ADMIN_ID

\* /dumpdata
dump_data(user_id) ==
    /\ handler.pc = "idle"
    /\ updates < MaxUpdates
    /\ updates' = updates + 1
    /\ reply' = IF ~is_admin(user_id) THEN Answer(user_id, "not_authorized")
                ELSE IF USER_CHANNELS = <<>> THEN Answer(user_id, "no_data")
                ELSE [to |-> user_id, text |-> "dump", data |-> Report(USER_CHANNELS)]
    /\ UNCHANGED <<USER_CHANNELS, DATA_FILE, files, cached, next_message_id, post_vars,
                   album_vars, toggles, next_step>>

\* ------------------------------------------------ the private-chat side
\* Registries registrations lead to: nobody registered; chat 10 registered
\* by user 1; chat 10 registered by both users and chat 30 by user 2
AdminRegistries ==
    { <<>>,
      << [uid |-> 1, channels |-> << ch_info(10) >>] >>,
      << [uid |-> 2, channels |-> << ch_info(30), ch_info(10) >>],
         [uid |-> 1, channels |-> << ch_info(10) >>] >> }

\* the texts users send: numbers at and beyond the limits of the numeric
\* fields, and a text that is no number
Texts == { <<"1">>, <<"1", "0", "0">>, <<"1", "0", "1">>, <<"0">>,
           <<"3", "6", "0">>, <<"3", "6", "1">>, <<"9", "5">>, <<"9", "6">>,
           <<"-", "1">>, <<"w">> }

Messages == {Message("text", t) : t \in Texts}
            \cup {Message("photo", None), Message("animation", None)}

InitAdmin ==
    /\ USER_CHANNELS \in AdminRegistries
    /\ files = {}
    /\ channel_post = NoPost
    /\ handler = IdleHandler
    /\ calls = <<>>
    /\ media_groups = <<>>
    /\ job_queue = [g \in Albums |-> 0]
    /\ jobs = <<>>
    /\ next_message_id = 1
    /\ item = <<>>
    /\ created = [g \in Albums |-> 0]
    /\ deleted = [g \in Albums |-> 0]
    /\ armed = [g \in Albums |-> 0]
    /\ firings = [g \in Albums |-> [total |-> 0, absent |-> 0, skipped |-> 0, refired |-> 0]]
    /\ toggles = [b \in RuleBlocks |-> 0]
    /\ InitConversation

\* the user who configures a channel here; the other user registers,
\* removes and asks for the dump
Configuring == {1}

NextAdmin ==
    \/ \E user_id \in Users, origin \in Chats \cup {0} : ForwardedMessage(user_id, origin)
    \/ \E user_id \in Users, ch_id \in Chats : RemoveChannel(user_id, ch_id)
    \/ \E user_id \in Configuring, field \in Fields, sent \in {"ok", "error"} :
          Prompt(user_id, field, 10, sent)
    \/ \E user_id \in Configuring : Navigate(user_id, 10)
    \/ \E user_id \in Configuring, effect \in Effects : SetEffect(user_id, 10, effect)
    \/ \E user_id \in Configuring, rotation \in RotationButtons : SetRotation(user_id, 10, rotation)
    \/ \E user_id \in Configuring, message \in Messages,
          download \in {"ok", "error"}, replied \in {"ok", "error"} :
          UserMessage(user_id, message, download, replied)
    \/ \E user_id \in Users : dump_data(user_id)

SpecAdmin == InitAdmin /\ [][NextAdmin]_vars

\* handle_channel_post called for a message of a group or a supergroup
\* (MessageHandler(filters.ChatType.GROUPS, handle_channel_post)): the
\* message is update.message, update.channel_post is None and the handler
\* returns at "if not channel_post" whatever the message is
GroupMessageArrives(inp) ==
    /\ handler.pc = "idle"
    /\ next_message_id <= MaxPosts
    /\ channel_post' = NoPost
    /\ handler' = [IdleHandler EXCEPT !.pc = "returned"]
    /\ calls' = <<>>
    /\ next_message_id' = next_message_id + 1
    /\ UNCHANGED <<USER_CHANNELS, files>>

\* posts of channels and messages of groups
NextGroup ==
    \/ NextPost
    \/ (\E inp \in PostInputs : GroupMessageArrives(inp))
          /\ UNCHANGED <<album_vars, admin_vars>>

SpecGroup == InitPost /\ [][NextGroup]_vars

\* album jobs and the removal of a channel: a job of the job queue is a
\* task of its own, it is suspended at its awaits while button_router runs
NextRemoval ==
    \/ NextAlbum
    \/ \E user_id \in Users : RemoveChannel(user_id, 10)

SpecRemoval == InitAlbum /\ [][NextRemoval]_vars

\* the owners' lists under registrations, removals, toggles and captures
NextOwners ==
    \/ \E user_id \in Users, origin \in Chats : ForwardedMessage(user_id, origin)
    \/ \E user_id \in Users, ch_id \in Chats : RemoveChannel(user_id, ch_id)
    \/ \E k \in 1..2, block \in {"auto_button", "auto_watermark"} :
          ToggleStatus(k, 10, block)
    \/ \E user_id \in Users,
          field \in {"set_auto_button_config", "set_watermark_size_value"} :
          Prompt(user_id, field, 10, "ok")
    \/ \E user_id \in Users : UserMessage(user_id, Message("text", <<"1">>), "ok", "ok")

SpecOwners == InitAdmin /\ [][NextOwners]_vars

\* ------------------------------------- captures of a watermark source
\* chat 10 in the lists of both users: the first has an image watermark
\* whose source "f" is cached, the second has configured nothing yet
CaptureRegistries ==
    { << [uid |-> 1, channels |-> << ChannelConfig(10,
             ImageWatermark(<<"f">>, ImagePath),
             InactiveButton, InactiveCaption, "inactive") >>],
         [uid |-> 2, channels |-> << ch_info(10) >>] >> }

\* what a user sends as the watermark: a photo, an animation or a text
CaptureMessages ==
    {Media("photo", <<"g">>), Media("animation", <<"h">>), Message("text", <<"w">>)}

InitCapture ==
    /\ USER_CHANNELS \in CaptureRegistries
    /\ files = {CacheFile(10)}
    /\ channel_post = NoPost
    /\ handler = IdleHandler
    /\ calls = <<>>
    /\ media_groups = <<>>
    /\ job_queue = [g \in Albums |-> 0]
    /\ jobs = <<>>
    /\ next_message_id = 1
    /\ item = <<>>
    /\ created = [g \in Albums |-> 0]
    /\ deleted = [g \in Albums |-> 0]
    /\ armed = [g \in Albums |-> 0]
    /\ firings = [g \in Albums |-> [total |-> 0, absent |-> 0, skipped |-> 0, refired |-> 0]]
    /\ toggles = [b \in RuleBlocks |-> 0]
    /\ InitConversation

NextCapture ==
    \/ \E user_id \in Users, sent \in {"ok", "error"} :
          Prompt(user_id, "set_auto_watermark_config", 10, sent)
    \/ \E user_id \in Users, message \in CaptureMessages,
          download \in {"ok", "error"}, replied \in {"ok", "error"} :
          UserMessage(user_id, message, download, replied)

SpecCapture == InitCapture /\ [][NextCapture]_vars

\* ------------------------------------ buttons and steps of stale menus
\* "toggle_auto_<block>_status_<ch_id>" pressed by user_id, the whole
\* handler: the status is toggled if the user has the channel, then
\* send_auto_<block>_settings shows the menu or "Channel not found."
ToggleStatusPressed(user_id, ch_id, block) ==
    /\ handler.pc = "idle"
    /\ updates < MaxUpdates
    /\ updates' = updates + 1
    /\ LET k == OwnerIndex(USER_CHANNELS, user_id, 1)
           c == Chosen(user_id, ch_id)
       IN  IF c # 0
           THEN /\ USER_CHANNELS' = [USER_CHANNELS EXCEPT
                       ![k].channels[c][block].status = new_status(@)]
                /\ DATA_FILE' = json_dump(USER_CHANNELS')           \* save_data()
                /\ toggles' = [toggles EXCEPT ![block] = @ + 1]
                /\ reply' = Answer(user_id, "menu")
           ELSE /\ reply' = Answer(user_id, "channel_not_found")
                /\ UNCHANGED <<USER_CHANNELS, DATA_FILE, toggles>>
    /\ UNCHANGED <<files, cached, next_message_id, post_vars, album_vars, next_step>>

\* "toggle_auto_reactions_<status>_<ch_id>" pressed by user_id
ToggleReactionsPressed(user_id, ch_id, status) ==
    /\ handler.pc = "idle"
    /\ updates < MaxUpdates
    /\ updates' = updates + 1
    /\ LET k == OwnerIndex(USER_CHANNELS, user_id, 1)
           c == Chosen(user_id, ch_id)
       IN  IF c = 0
           THEN /\ reply' = Answer(user_id, "channel_not_found")
                /\ UNCHANGED <<USER_CHANNELS, DATA_FILE, toggles>>
           ELSE IF ChannelsOf(user_id)[c].auto_reactions.status = status
           THEN /\ reply' = Answer(user_id, "already")
                /\ UNCHANGED <<USER_CHANNELS, DATA_FILE, toggles>>
           ELSE /\ USER_CHANNELS' = [USER_CHANNELS EXCEPT
                       ![k].channels[c].auto_reactions.status = status]
                /\ DATA_FILE' = json_dump(USER_CHANNELS')           \* save_data()
                /\ toggles' = [toggles EXCEPT !["auto_reactions"] = @ + 1]
                /\ reply' = Answer(user_id, "menu")
    /\ UNCHANGED <<files, cached, next_message_id, post_vars, album_vars, next_step>>

\* what the users send under a prompt here
StaleMessages == {Message("text", <<"1">>), Message("photo", None)}

\* users press buttons of menus and answer prompts that name a channel they
\* have, have removed or never had
NextStale ==
    \/ \E user_id \in Users : RemoveChannel(user_id, 10)
    \/ \E user_id \in Users,
          field \in {"set_auto_button_config", "set_auto_caption_config",
                     "set_watermark_rotation_value"} :
          Prompt(user_id, field, 10, "ok")
    \/ \E user_id \in Users, block \in {"auto_watermark", "auto_button"} :
          ToggleStatusPressed(user_id, 10, block)
    \/ \E user_id \in Users, status \in {"active", "inactive"} :
          ToggleReactionsPressed(user_id, 10, status)
    \/ \E user_id \in Users, message \in StaleMessages, replied \in {"ok", "error"} :
          UserMessage(user_id, message, "ok", replied)

SpecStale == InitAdmin /\ [][NextStale]_vars

\* ---------------------------------------------------------- dispatch
\* an update with a text: a message of a private chat or of a group
\* (update.message), or a post of a channel (update.channel_post)
TextUpdate(chat_type, chat_id, user_id, text) ==
    [chat_type |-> chat_type, chat_id |-> chat_id, user_id |-> user_id,
     kind |-> "text", text |-> text, forwarded |-> FALSE, command |-> FALSE]

\* the handlers in the order main() adds them, all to one group
handlers ==
    << "CommandHandler", "button_router", "handle_forwarded_message",
       "handle_user_message", "handle_text_channel_username",
       "handle_channel_post", "handle_channel_post" >>

\* the filter of the n-th handler on the effective message of the update
check_update(n, u) ==
    CASE n = 1 -> u.command /\ u.chat_type # "channel"
      [] n = 2 -> u.kind = "callback_query"
      [] n = 3 -> u.forwarded /\ u.chat_type = "private"
      [] n = 4 -> /\ u.kind \in {"text", "photo", "animation"}
                  /\ ~u.command /\ u.chat_type = "private"
      [] n = 5 -> u.kind = "text" /\ u.text # <<>> /\ Head(u.text) = "@"
      [] n = 6 -> u.chat_type = "channel"
      [] n = 7 -> u.chat_type = "group"

\* the handler that gets the update: the first one whose filter passes
RECURSIVE FirstMatch(_, _)
FirstMatch(n, u) ==
    IF n > Len(handlers) THEN "none"
    ELSE IF check_update(n, u) THEN handlers[n]
    ELSE FirstMatch(n + 1, u)

\* handle_text_channel_username.  For a post of a channel update.message
\* is None and "update.message.text" raises AttributeError: the handler
\* ends there.  chat: the id get_chat resolves the text to, 0 if it raises
\* or the chat is no channel or group
TextChannelUsername(u, chat) ==
    /\ handler.pc = "idle"
    /\ IF u.chat_type = "channel"
       THEN /\ next_message_id <= MaxPosts
            /\ next_message_id' = next_message_id + 1
            /\ UNCHANGED <<USER_CHANNELS, DATA_FILE, reply, updates>>
       ELSE /\ updates < MaxUpdates
            /\ updates' = updates + 1
            /\ UNCHANGED next_message_id
            /\ IF chat = 0
               THEN /\ reply' = Answer(u.user_id, "could_not_find")
                    /\ UNCHANGED <<USER_CHANNELS, DATA_FILE>>
               ELSE LET registry == SetDefault(USER_CHANNELS, u.user_id)
                        k == OwnerIndex(registry, u.user_id, 1)
                    IN  IF already_saved(registry[k].channels, chat)
                        THEN /\ reply' = Answer(u.user_id, "already_saved")
                             /\ USER_CHANNELS' = registry
                             /\ UNCHANGED DATA_FILE
                        ELSE /\ USER_CHANNELS' =
                                   [registry EXCEPT ![k].channels = Append(@, ch_info(chat))]
                             /\ DATA_FILE' = json_dump(USER_CHANNELS')      \* save_data()
                             /\ reply' = Answer(u.user_id, "saved")
    /\ UNCHANGED <<files, cached, post_vars, album_vars, toggles, next_step>>

\* the post handle_channel_post gets from the update
PostOf(u) ==
    [chat_id |-> u.chat_id, kind |-> u.kind, text |-> u.text, caption |-> None,
     entities |-> <<>>, reply_markup |-> NoMarkup]

\* Application.process_update: the update is given to the first handler
\* whose filter passes
process_update(u, chat) ==
    \/ /\ FirstMatch(1, u) = "handle_channel_post" /\ u.chat_type = "channel"
       /\ PostArrives(PostOf(u))
       /\ UNCHANGED <<album_vars, admin_vars>>
    \/ /\ FirstMatch(1, u) = "handle_channel_post" /\ u.chat_type = "group"
       /\ GroupMessageArrives(PostOf(u))
       /\ UNCHANGED <<album_vars, admin_vars>>
    \/ /\ FirstMatch(1, u) = "handle_user_message"
       /\ UserMessage(u.user_id, Message("text", u.text), "ok", "ok")
    \/ /\ FirstMatch(1, u) = "handle_text_channel_username"
       /\ TextChannelUsername(u, chat)

\* the text updates: of the channel, of a private chat and of a group, with
\* a text that begins with "@" and with one that does not
TextUpdates ==
    { TextUpdate(chat_type, IF chat_type = "private" THEN user_id ELSE 10, user_id, text) :
        chat_type \in {"private", "channel", "group"}, user_id \in {1},
        text \in { <<"@", "x">>, <<"t">> } }

NextDispatch ==
    \/ NextPost
    \/ \E u \in TextUpdates, chat \in {0, 30} : process_update(u, chat)

SpecDispatch == InitPost /\ [][NextDispatch]_vars

\* fairness the scheduling gives: an armed job is run, and every awaited
\* platform call returns (the request layer times out).  apply_watermark
\* awaits the transcoding process without a timeout: nothing makes
\* TranscodeStep happen.
AlbumFairness ==
    /\ \A g \in Albums : WF_vars(FireJob(g) /\ UNCHANGED <<post_vars, admin_vars>>)
    /\ \A j \in JobIds : WF_vars(JobStep(j) /\ UNCHANGED <<post_vars, admin_vars>>)

SpecAlbumLive == SpecAlbum /\ AlbumFairness

\* The steps of the post handler that return by themselves: a request to
\* the platform is answered or fails, asyncio.sleep ends, and subprocess.run
\* in apply_image_watermark returns after timeout=300 at the latest.
\* apply_watermark awaits process.communicate() without a timeout: its
\* return depends on the transcoder exiting and is not among these steps.
HandlerStep ==
    \/ \E result \in {"ok", "too_big", "error"}, file_size_mb \in FileSizes :
          H_GetFileReturns(result, file_size_mb)
    \/ \E result \in {"ok", "error"} : H_DownloadReturns(result)
    \/ \E result \in {"ok", "error"} : H_WatermarkGetFileReturns(result)
    \/ \E result \in {"ok", "error"} : H_WatermarkDownloadReturns(result)
    \/ \E result \in TranscodeResults \cup {"timeout"} : H_ImageWatermarkReturns(result)
    \/ \E result \in {"ok", "rejected"} : H_EditMediaReturns(result)
    \/ \E result \in {"ok", "error"} : H_DeleteReturns(result)
    \/ \E result \in {"ok", "error"} : H_SendMediaReturns(result)
    \/ H_SleepReturns
    \/ \E result \in {"ok", "rejected"} : H_ReactionAfterReplaceReturns(result)
    \/ \E result \in {"ok", "error"} : H_NoticeReturns(result)
    \/ \E result \in {"ok", "error"} : H_PlainNoticeReturns(result)
    \/ \E result \in {"ok", "rejected"} : H_EditReturns(result)
    \/ \E result \in {"ok", "rejected"} : H_ReactionReturns(result)
    \/ HandlerReturns

PostFairness == WF_vars(HandlerStep /\ UNCHANGED <<album_vars, admin_vars>>)

SpecPostLive == SpecPost /\ PostFairness

\* ------------------------------------ one event loop: handler and album jobs
\* a channel with an image watermark, so that photo and video posts go to
\* apply_image_watermark while animations and album items go to
\* apply_watermark
LoopRegistries ==
    { << [uid |-> 1, channels |-> << ChannelConfig(10,
             ImageWatermark(<<"f">>, <<"cache">>),
             InactiveButton, InactiveCaption, "active") >>] >> }

InitLoop ==
    /\ USER_CHANNELS \in LoopRegistries
    /\ files \in {{}, {CacheFile(10)}}
    /\ channel_post = NoPost
    /\ handler = IdleHandler
    /\ calls = <<>>
    /\ media_groups = <<>>
    /\ job_queue = [g \in Albums |-> 0]
    /\ jobs = <<>>
    /\ next_message_id = 1
    /\ item = <<>>
    /\ created = [g \in Albums |-> 0]
    /\ deleted = [g \in Albums |-> 0]
    /\ armed = [g \in Albums |-> 0]
    /\ firings = [g \in Albums |-> [total |-> 0, absent |-> 0, skipped |-> 0, refired |-> 0]]
    /\ toggles = [b \in RuleBlocks |-> 0]
    /\ InitConversation

\* posts with and without media_group_id arrive at the same application;
\* the job queue runs its jobs on the loop the handlers run on
NextLoop == NextAlbum \/ NextPost

SpecLoop == InitLoop /\ [][NextLoop]_vars

\* ---------------------------------------------------------------- helpers
Items == DOMAIN item
ItemsOf(g, gen) == {m \in Items : item[m].media_group_id = g /\ item[m].gen = gen}
JobsOf(g, gen) == {j \in 1..Len(jobs) : jobs[j].media_group_id = g /\ jobs[j].gen = gen}
MessageIds(messages) == {messages[n].message_id : n \in 1..Len(messages)}
\* the job that consumed the batch of message m through the loop
ConsumedBy(m) == {j \in JobsOf(item[m].media_group_id, item[m].gen) :
                     jobs[j].pc = "done" /\ jobs[j].outcome = "consumed"}

\* the job instance works on the batch that is in the table
JobHoldsItsBatch ==
    \A j \in 1..Len(jobs) : jobs[j].pc # "done" =>
        /\ jobs[j].media_group_id \in DOMAIN media_groups
        /\ jobs[j].gen = created[jobs[j].media_group_id]
        /\ jobs[j].idx \in 1..Len(media_groups[jobs[j].media_group_id].messages)

\* ------------------------------------------------------------------ claims

\* C1: the posts of one album id that arrive before the album's job fires
\* are collected in one AlbumBatch, exactly one deferred job is armed for
\* that batch (the first arrival arms it, later arrivals only append), and
\* the batch gets exactly one Registry lookup pass, whatever the number of
\* posts.
C1_OneBatchOneJobOneLookup ==
    \A g \in Albums :
        /\ armed[g] = created[g]
        /\ deleted[g] <= created[g]
        /\ g \in DOMAIN media_groups =>
              /\ media_groups[g].job_scheduled
              /\ MessageIds(media_groups[g].messages) = ItemsOf(g, created[g])
              /\ deleted[g] = created[g] - 1
        /\ \A gen \in 1..created[g] :
              /\ Cardinality(JobsOf(g, gen)) <= 1
              /\ \A j \in JobsOf(g, gen) : jobs[j].lookups = 1
              /\ gen <= deleted[g] => Cardinality(JobsOf(g, gen)) = 1

\* three posts arrived before the job fired and the job has run to its end
C1_Witness ==
    \E g \in Albums :
        /\ Cardinality(ItemsOf(g, 1)) = 3
        /\ \A m \in ItemsOf(g, 1) : ~item[m].late
        /\ \E j \in JobsOf(g, 1) : jobs[j].pc = "done" /\ jobs[j].lookups = 1
        /\ armed[g] = 1

\* C2 as stated: when the job of an album id fires again, only the first
\* firing does a Registry lookup: no invocation started by a repeated firing
\* gets past the processed check.
C2_OnlyFirstFiringWorks ==
    \A j \in 1..Len(jobs) : ~jobs[j].refired

\* C2 as amended: a firing that finds the AlbumBatch of its album id
\* removed or marked processed returns at once: it changes neither the
\* AlbumBatch table nor the Registry, starts no invocation that would issue
\* a call, and touches no file; so each AlbumBatch is looked up and
\* processed by at most one firing.
C2_FiringOnProcessedBatchIsNoOp ==
    /\ [](\A g \in Albums : \A gen \in 1..created[g] :
              Cardinality(JobsOf(g, gen)) <= 1)
    /\ [][\A g \in Albums :
            (/\ firings'[g].total = firings[g].total + 1
             /\ (g \notin DOMAIN media_groups \/ media_groups[g].processed))
            => /\ UNCHANGED <<media_groups, USER_CHANNELS, jobs, item, files>>
               /\ firings'[g].absent + firings'[g].skipped
                    = firings[g].absent + firings[g].skipped + 1]_vars

\* a second firing has returned while the first is suspended in a call
C2_Witness ==
    \E g \in Albums :
        /\ firings[g].skipped > 0
        /\ \E j \in JobsOf(g, created[g]) :
              jobs[j].pc \in {"download_to_drive", "apply_watermark", "edit_message_media"}

\* C3 as stated: every album item is watermarked at most once, and an item
\* of a batch that was consumed with the watermark rule active, none of
\* whose steps failed, has exactly one watermark execution and one
\* edit-media call.
C3_EveryItemOnce ==
    \A m \in Items :
        /\ item[m].wm <= 1
        /\ item[m].edit_media <= 1
        /\ (ConsumedBy(m) # {} /\ ~item[m].failed)
              => (item[m].wm = 1 /\ item[m].edit_media = 1)

\* C3 as amended: the same for every photo or video item; an item of
\* another media kind passes through the job untouched (no watermark
\* execution, no edit-media call).
C3_EveryMediaItemOnce ==
    \A m \in Items :
        /\ item[m].wm <= 1
        /\ item[m].edit_media <= 1
        /\ item[m].get_file <= 1
        /\ (ConsumedBy(m) # {} /\ ~item[m].failed) =>
              IF item[m].kind \in Watermarkable
              THEN item[m].wm = 1 /\ item[m].edit_media = 1
              ELSE item[m].wm = 0 /\ item[m].edit_media = 0

\* a photo that arrived while the job was suspended on an earlier item has
\* been watermarked and edited once
C3_Witness ==
    \E m \in Items :
        /\ item[m].late /\ item[m].kind \in Watermarkable
        /\ ConsumedBy(m) # {}
        /\ item[m].wm = 1 /\ item[m].edit_media = 1 /\ ~item[m].failed

\* C4: every AlbumBatch that is created is eventually removed from the
\* aggregation table by its deferred job.
C4_BatchEventuallyRemoved ==
    \A g \in Albums : (g \in DOMAIN media_groups) ~> (g \notin DOMAIN media_groups)

\* C8: every item whose watermarking failed has had a failure notice
\* attempted for it (here: the items of albums).
C8_FailedItemNotified ==
    \A m \in Items : item[m].failed => item[m].notice >= 1

\* C9: once the processing of an item has ended, no temporary file of that
\* item is on disk: a file on disk belongs to the item its job is working on.
C9_NoTempFileLeft ==
    \A f \in files :
        /\ f.job \in 1..Len(jobs)
        /\ jobs[f.job].pc # "done"
        /\ media_groups[jobs[f.job].media_group_id].messages[jobs[f.job].idx].message_id
              = f.message_id

\* C10: in a batch that the job consumed through its loop, every item was
\* reached by the loop and every photo or video had its download started,
\* whatever happened to the other items.
C10_FailureDoesNotStopJob ==
    \A j \in 1..Len(jobs) :
        (jobs[j].pc = "done" /\ jobs[j].outcome = "consumed") =>
            \A m \in ItemsOf(jobs[j].media_group_id, jobs[j].gen) :
                /\ item[m].visited
                /\ item[m].kind \in Watermarkable => item[m].get_file = 1

\* the first item of a batch failed and a later item was watermarked
C10_Witness ==
    \E m1, m2 \in Items :
        /\ m1 < m2
        /\ item[m1].media_group_id = item[m2].media_group_id
        /\ item[m1].gen = item[m2].gen
        /\ item[m1].failed
        /\ item[m2].wm = 1 /\ item[m2].edit_media = 1 /\ ~item[m2].failed
        /\ ConsumedBy(m2) # {}

\* C11: the only bot calls the job issues for an album item are get_file and
\* edit-media (no edit-text, edit-caption or reaction call), and the
\* edit-media call carries the caption and entities of the item as posted,
\* whatever the button, caption and reaction rules of the channel are.
C11_AlbumOnlyWatermark ==
    \A m \in Items :
        /\ \A k \in 1..Len(item[m].ops) :
              item[m].ops[k] \in {"get_file", "edit_message_media"}
        /\ item[m].edit_media >= 1 =>
              item[m].media = [caption |-> item[m].caption,
                               caption_entities |-> item[m].caption_entities]

\* an item with a caption had its media replaced in a channel whose button,
\* caption and reaction rules are all active
C11_Witness ==
    \E m \in Items :
        /\ item[m].edit_media = 1
        /\ item[m].caption # None
        /\ LET p == FindConfig(ChatOf(item[m].media_group_id))
           IN  /\ p # <<0, 0>>
               /\ ConfigAt(p).auto_button.status = "active"
               /\ ConfigAt(p).auto_captions.status = "active"
               /\ ConfigAt(p).auto_reactions.status = "active"

\* ------------------------------------------------- claims: single posts
EditOps == {"edit_message_media", "edit_message_text", "edit_message_caption"}
ReplaceOps == {"edit_message_media", "delete_message", "send_photo", "send_video",
               "send_animation"}
ExecOps == {"get_file", "download_to_drive", "apply_watermark", "apply_image_watermark"}

OpBefore(k, ops) == \E i \in 1..(k - 1) : calls[i].op \in ops

\* the post takes the media-watermark path
OnWatermarkPath == Len(calls) >= 2 /\ calls[2].op = "get_file"

C6_OneEditCall ==
    \A k \in 1..Len(calls) :
        (calls[k].op = "edit_message_media" /\ k < Len(calls) /\ calls[k + 1].op = "replaced")
        => LET cfg == ConfigAt(handler.channel_config)
               cap == ApplyAutoCaptions(cfg, original_text(channel_post),
                                        channel_post.entities)
           IN  /\ {i \in 1..Len(calls) : calls[i].op \in EditOps} = {k}
               /\ calls[k].message_id = channel_post.message_id
               /\ calls[k].text = cap.text
               /\ calls[k].entities = cap.entities
               /\ calls[k].reply_markup = ApplyAutoButtons(cfg, channel_post.reply_markup)

\* the handler has returned from a post with a caption whose edit-media was
\* accepted, with the caption rule and the button rule active
C6_Witness ==
    /\ handler.pc = "returned"
    /\ channel_post.caption # None
    /\ \E k \in 1..(Len(calls) - 1) :
          /\ calls[k].op = "edit_message_media"
          /\ calls[k + 1].op = "replaced"
          /\ calls[k].text # channel_post.caption
          /\ Len(calls[k].entities) = 2
          /\ ~calls[k].reply_markup.is_none

\* C7: after the failure notice of a post, the handler issues no edit-text,
\* edit-caption, edit-media or reaction call for the post.
C7_FailureIsTerminal ==
    \A i, j \in 1..Len(calls) :
        (i < j /\ calls[i].op = "send_message")
        => calls[j].op \notin EditOps \cup {"set_message_reaction"}

\* a failed single post has had its notice attempted
FailedPostNotified ==
    handler.failed => \E k \in 1..Len(calls) : calls[k].op = "send_message"

\* no edit or replace call has been issued for the current post
NoEditCall == \A k \in 1..Len(calls) : calls[k].op \notin EditOps \cup ReplaceOps

AllInactive(cfg) ==
    /\ cfg.auto_button.status = "inactive"
    /\ cfg.auto_captions.status = "inactive"
    /\ cfg.auto_watermark.status = "inactive"
    /\ cfg.auto_reactions.status = "inactive"

\* C12: a post in a channel whose four rule blocks are inactive causes no
\* edit call; and starting from a channel with every rule inactive, when
\* every rule has been toggled back (an even number of toggles each), a
\* post again causes no edit call.
C12_InactiveRulesNoEdit ==
    (handler.pc # "idle" /\ FindConfig(channel_post.chat_id) # <<0, 0>>) =>
        /\ AllInactive(ConfigAt(FindConfig(channel_post.chat_id))) => NoEditCall
        /\ (\A b \in Blocks : toggles[b] % 2 = 0) => NoEditCall

\* a rule was toggled to active and back, then a photo with a caption was
\* posted and the handler has returned
C12_Witness ==
    /\ handler.pc = "returned"
    /\ \E b \in Blocks : toggles[b] = 2
    /\ channel_post.kind = "photo" /\ channel_post.chat_id = 10
    /\ calls # <<>>

\* the edit-text and edit-caption calls issued for the current post
TextEdits == {k \in 1..Len(calls) : calls[k].op \in {"edit_message_text", "edit_message_caption"}}

\* the button rule of the channel yields no button
NoButtonFrom(cfg) ==
    \/ cfg.auto_button.status # "active"
    \/ cfg.auto_button.config = NotSet
    \/ ParseLines(Split(cfg.auto_button.config, "\n")) = <<>>

\* C13: for a single post that does not take the media-watermark path, an
\* edit-text or edit-caption call is issued if and only if the composed
\* text, entities or markup differ from the post's; it is edit-text for a
\* text post and edit-caption otherwise and carries the composed values; an
\* active button rule that yields no button leaves the markup as posted,
\* and an active caption rule with "Not set" leaves text and entities.
C13_EditIffChanged ==
    (handler.pc # "idle" /\ handler.channel_config # <<0, 0>> /\ ~OnWatermarkPath) =>
        LET cfg == ConfigAt(handler.channel_config)
            cp == channel_post
            differs == \/ handler.final_text # original_text(cp)
                       \/ handler.final_entities # cp.entities
                       \/ handler.final_reply_markup # cp.reply_markup
        IN  /\ differs <=> TextEdits # {}
            /\ Cardinality(TextEdits) <= 1
            /\ \A k \in TextEdits :
                  /\ calls[k].op = IF cp.text # None THEN "edit_message_text"
                                    ELSE "edit_message_caption"
                  /\ calls[k].text = IF handler.final_text = None /\ cp.text = None
                                     THEN <<>> ELSE handler.final_text
                  /\ calls[k].entities = handler.final_entities
                  /\ calls[k].reply_markup = handler.final_reply_markup
            /\ NoButtonFrom(cfg) => handler.final_reply_markup = cp.reply_markup
            /\ (cfg.auto_captions.status = "active" /\ cfg.auto_captions.config = NotSet
                  /\ ~(watermark_active(cfg) /\ cp.text # None))
               => /\ handler.final_text = original_text(cp)
                  /\ handler.final_entities = cp.entities
            /\ (NoButtonFrom(cfg) /\ cfg.auto_captions.config = NotSet
                  /\ ~(watermark_active(cfg) /\ cp.text # None))
               => TextEdits = {}

\* the handler has returned without an edit from a photo post in a channel
\* whose button rule is active with a configuration that yields no button
\* and whose caption rule is active with "Not set"
C13_Witness ==
    /\ handler.pc = "returned"
    /\ channel_post.kind = "photo"
    /\ handler.channel_config # <<0, 0>>
    /\ LET cfg == ConfigAt(handler.channel_config)
       IN  /\ cfg.auto_button.status = "active" /\ cfg.auto_button.config # NotSet
           /\ cfg.auto_captions.status = "active" /\ cfg.auto_captions.config = NotSet
    /\ calls # <<>>
    /\ TextEdits = {}

\* the places <<owner, channel>> of the Registry records with this id
RecordsOf(ch_id) ==
    { p \in (1..Len(USER_CHANNELS)) \X (1..2) :
        /\ p[2] <= Len(USER_CHANNELS[p[1]].channels)
        /\ USER_CHANNELS[p[1]].channels[p[2]].id = ch_id }

Precedes(p, q) == p[1] < q[1] \/ (p[1] = q[1] /\ p[2] <= q[2])

\* C14: the handler works with one ChannelConfig for a post, the first
\* record of the Registry with the post's channel id, and what it composes
\* is what the rules of that record give; when no owner registered the
\* channel, the handler returns without a call and changes neither the
\* Registry nor the files nor the album table.
C14_FirstRecordOrNoOp ==
    /\ [](handler.pc # "idle" =>
            LET R == RecordsOf(channel_post.chat_id)
            IN  IF R = {}
                THEN handler.channel_config = <<0, 0>> /\ handler.pc = "returned"
                     /\ calls = <<>>
                ELSE /\ handler.channel_config \in R
                     /\ \A q \in R : Precedes(handler.channel_config, q)
                     /\ handler.final_reply_markup =
                          ApplyAutoButtons(ConfigAt(handler.channel_config),
                                           channel_post.reply_markup))
    /\ [][(handler.pc = "idle" /\ handler'.pc # "idle"
             /\ RecordsOf(channel_post'.chat_id) = {})
          => UNCHANGED <<USER_CHANNELS, files, album_vars>>]_vars

\* a post of a channel that two owners registered got the caption of the
\* first owner's record and not the buttons of the second owner's
C14_Witness ==
    /\ handler.pc = "returned"
    /\ Cardinality(RecordsOf(channel_post.chat_id)) = 2
    /\ handler.channel_config = <<1, 2>>
    /\ handler.final_reply_markup.is_none
    /\ handler.final_text # original_text(channel_post)

SendOps == {"send_photo", "send_video", "send_animation"}

\* C15: a delete call comes right after an edit-media call (the rejected
\* one) and targets the original post; the call after it sends the media
\* anew with the caption, entities and markup of the edit-media call and
\* yields a new identifier; a reaction call that follows the accepted send
\* targets the new identifier.
C15_FallbackDeleteThenSend ==
    \A k \in 1..Len(calls) :
        /\ calls[k].op = "delete_message" =>
              /\ k > 1 /\ calls[k - 1].op = "edit_message_media"
              /\ calls[k].message_id = channel_post.message_id
        /\ calls[k].op \in SendOps =>
              \E d \in 2..(k - 1) :
                  /\ calls[d].op = "delete_message"
                  /\ \A i \in (d + 1)..(k - 1) : calls[i].op = "delete_failed"
                  /\ calls[k].op = SendOp(channel_post.kind)
                  /\ calls[k].text = calls[d - 1].text
                  /\ calls[k].entities = calls[d - 1].entities
                  /\ calls[k].reply_markup = calls[d - 1].reply_markup
                  /\ calls[k].message_id # channel_post.message_id
        /\ (calls[k].op = "set_message_reaction" /\ k > 2
              /\ calls[k - 1].op = "replaced" /\ calls[k - 2].op \in SendOps)
           => calls[k].message_id = calls[k - 2].message_id
        /\ (handler.pc = "send_media" /\ k = Len(calls)) => calls[k].op \in SendOps

\* after a rejected edit-media the post was deleted and sent anew with a
\* caption and buttons, and the reaction call was issued
C15_Witness ==
    \E k \in 4..Len(calls) :
        /\ calls[k].op = "set_message_reaction"
        /\ calls[k - 1].op = "replaced"
        /\ calls[k - 2].op = "send_photo"
        /\ calls[k - 3].op = "delete_message"
        /\ calls[k - 2].text # None
        /\ ~calls[k - 2].reply_markup.is_none

\* C16: after a fallback delete that failed, no replacement post is sent.
C16_NoSendAfterFailedDelete ==
    \A k \in 1..Len(calls) :
        calls[k].op = "delete_failed" =>
            \A j \in (k + 1)..Len(calls) : calls[j].op \notin SendOps

Reactions == {k \in 1..Len(calls) : calls[k].op = "set_message_reaction"}

\* C17: the handler issues at most one reaction call for a post, only when
\* the reaction rule of the channel is active, and nothing follows it in
\* the handler; when the call returns, accepted or rejected, the handler
\* returns without another call and the Registry is as it was.
C17_ReactionOnceAndLast ==
    /\ [](/\ Cardinality(Reactions) <= 1
          /\ \A k \in Reactions :
                /\ k = Len(calls)
                /\ reaction_active(ConfigAt(handler.channel_config)))
    /\ [][handler.pc \in {"set_message_reaction", "set_message_reaction_replaced"}
          => /\ handler'.pc = "returned"
             /\ calls' = calls
             /\ USER_CHANNELS' = USER_CHANNELS]_vars

\* the handler has returned from a post that it edited and then reacted to
C17_Witness ==
    /\ handler.pc = "returned"
    /\ Len(calls) >= 2
    /\ calls[Len(calls)].op = "set_message_reaction"
    /\ calls[Len(calls) - 1].op \in EditOps

\* C18: when the file of a single post is above the cap, the handler starts
\* no download of it and no transcoder, no file of the post is on disk, and
\* the notice it sends to the channel is the one that names the 20 MB limit.
C18_TooLargeAborts ==
    handler.file_size_mb > max_size_mb =>
        /\ \A k \in 1..Len(calls) :
              calls[k].op \notin {"download_to_drive", "apply_watermark",
                                  "apply_image_watermark", "watermarked"}
        /\ \A f \in files : f.message_id # channel_post.message_id
        /\ handler.downloaded_file_path = NoPath
        /\ \E k \in 1..Len(calls) :
              /\ calls[k].op = "send_message"
              /\ \E i \in 1..Len(calls[k].text) :
                    calls[k].text[i] = "Telegram bot API limit is 20MB for downloads"

\* the handler has returned from a post whose file was above the cap
C18_Witness ==
    /\ handler.pc = "returned"
    /\ handler.file_size_mb > max_size_mb
    /\ handler.failed

Transcoding == handler.pc \in {"apply_image_watermark", "apply_watermark"}

\* lemma: a handler in the image/animation executor always comes back,
\* TimeoutExpired being one of the ways subprocess.run returns
ImageTranscodeEnds ==
    (handler.pc = "apply_image_watermark") ~> (handler.pc \in {"returned", "idle"})

\* C19: a handler that awaits a transcoding process, started by the text
\* executor or by the image/animation executor, eventually terminates even
\* if the process never exits.
\* Violated: with the text executor the handler stays at apply_watermark.
C19_TranscodeEnds == Transcoding ~> (handler.pc \in {"returned", "idle"})

\* a step of a coroutine other than the suspended handler: a due album job
\* starts, or a job resumes from its await
OtherCoroutineStep ==
    \/ \E g \in Albums : FireJob(g) /\ UNCHANGED <<post_vars, admin_vars>>
    \/ \E j \in JobIds : JobStep(j) /\ UNCHANGED <<post_vars, admin_vars>>

\* a job is due, or the request a job awaits has been answered
OtherCoroutineReady ==
    \/ \E g \in Albums : job_queue[g] > 0
    \/ \E j \in 1..Len(jobs) :
          jobs[j].pc \in {"get_file", "download_to_drive", "edit_message_media"}

\* C20: while a transcoding process runs for a post, with the text
\* executor or with the image/animation executor, the event loop can run
\* another coroutine that is ready.
\* Violated: during apply_image_watermark the loop runs nothing.
C20_LoopRunsOthers ==
    (Transcoding /\ OtherCoroutineReady) => ENABLED OtherCoroutineStep

\* lemma: the text executor does suspend the handler and free the loop
TextExecutorYields ==
    (handler.pc = "apply_watermark" /\ OtherCoroutineReady) => ENABLED OtherCoroutineStep

TextExecutorYieldsWitness ==
    handler.pc = "apply_watermark" /\ OtherCoroutineReady

\* -------------------------------------------- claims: the private-chat side
\* C22: a registration of a channel that is not in the owner's list adds
\* exactly one record, at the end of the list, whose four rule blocks are
\* inactive and whose configurations are "Not set" (the reaction block has
\* no configuration); a registration of a channel that is in the list adds
\* no record, changes no record and answers that the channel is already
\* saved.
C22_RegisterOnce ==
    [][\A user_id \in Users, origin \in Chats :
          ForwardedMessage(user_id, origin) =>
             LET before == ChannelsOf(user_id)
                 after == ChannelsOf(user_id)'
             IN  IF \E n \in 1..Len(before) : before[n].id = origin
                 THEN /\ USER_CHANNELS' = USER_CHANNELS
                      /\ reply' = Answer(user_id, "already_saved")
                 ELSE /\ Len(after) = Len(before) + 1
                      /\ SubSeq(after, 1, Len(before)) = before
                      /\ after[Len(after)].id = origin
                      /\ \A b \in RuleBlocks : after[Len(after)][b].status = "inactive"
                      /\ \A b \in Blocks : after[Len(after)][b].config = NotSet
                      /\ reply' = Answer(user_id, "saved")]_vars

\* user 1 registered chat 30 after chat 10 and then forwarded a post of
\* chat 30 again
C22_Witness ==
    /\ reply = Answer(1, "already_saved")
    /\ ChannelsOf(1) = << ch_info(10), ch_info(30) >>

\* C23: after any sequence of registrations, removals, toggles and captures
\* no owner's list holds two records with the same id, and a registration
\* or a removal done by one owner leaves the list of every other owner as
\* it was.
C23_UniquePerOwner ==
    /\ [](\A k \in 1..Len(USER_CHANNELS) :
             \A m, n \in 1..Len(USER_CHANNELS[k].channels) :
                m # n => USER_CHANNELS[k].channels[m].id # USER_CHANNELS[k].channels[n].id)
    /\ [][\A user_id \in Users, ch_id \in Chats :
             (ForwardedMessage(user_id, ch_id) \/ RemoveChannel(user_id, ch_id)) =>
                /\ Len(USER_CHANNELS') >= Len(USER_CHANNELS)
                /\ \A k \in 1..Len(USER_CHANNELS) :
                      USER_CHANNELS[k].uid # user_id => USER_CHANNELS'[k] = USER_CHANNELS[k]]_vars

\* user 2 registered chat 10, which user 1 has registered too, and then
\* removed it
C23_Witness ==
    /\ USER_CHANNELS = << [uid |-> 1, channels |-> << ch_info(10) >>],
                          [uid |-> 2, channels |-> <<>>] >>
    /\ reply = Answer(2, "removed")

\* C24: when the last update of a user was a Back or Cancel button or
\* another menu action (the answer was a menu), the step token of an
\* earlier prompt is cleared: a free-form message the user sends next
\* stores no configuration value.
\* Violated: no branch of button_router deletes next_step; the message
\* after the menu is stored as the value the earlier prompt asked for.
C24_NavigationClearsStep ==
    [][\A user_id \in Users, message \in Messages,
          download \in {"ok", "error"}, replied \in {"ok", "error"} :
          (reply = Answer(user_id, "menu")
             /\ UserMessage(user_id, message, download, replied)) =>
                USER_CHANNELS' = USER_CHANNELS]_vars

\* C25: when the step token of a user names a numeric field, the handling
\* of the next free-form message of the user (a text, a photo or an
\* animation; every reply accepted by the platform) leaves no token.
\* Violated: for a photo or an animation int(None) raises TypeError, which
\* "except ValueError" does not catch; the token stays.
C25_NumericStepCleared ==
    [][\A user_id \in Users, message \in Messages, download \in {"ok", "error"} :
          (next_step[user_id].field \in NumericFields
             /\ UserMessage(user_id, message, download, "ok")) =>
                next_step'[user_id] = NoStep]_vars

C27_DocumentEqualsRegistry == json_load(DATA_FILE) = USER_CHANNELS

\* C28: in every state no record of the Registry pairs a watermark of type
\* image or animation with an effect that exists for text watermarks only.
\* Violated: the effect stays when the watermark is replaced by a photo.
C28_ValidKindEffect ==
    \A k \in 1..Len(USER_CHANNELS) :
       \A n \in 1..Len(USER_CHANNELS[k].channels) :
          LET wm == USER_CHANNELS[k].channels[n].auto_watermark
          IN  wm.type \in {"image", "animation"} => wm.effect \notin TextEffects

\* C30: /dumpdata answers with Registry contents only when the invoking
\* user is the configured administrator; the answer to anyone else carries
\* no Registry data; the command leaves the Registry and the document as
\* they were.
C30_DumpOnlyForAdmin ==
    [][\A user_id \in Users :
          dump_data(user_id) =>
             /\ USER_CHANNELS' = USER_CHANNELS
             /\ DATA_FILE' = DATA_FILE
             /\ reply'.to = user_id
             /\ user_id # MAIN_ADMIN_ID => reply' = Answer(user_id, "not_authorized")
             /\ reply'.data # <<>> => /\ user_id = MAIN_ADMIN_ID
                                      /\ reply'.data = Report(USER_CHANNELS)]_vars

\* the administrator asked for the dump of a Registry that holds the
\* records of another owner
C30_Witness ==
    /\ reply.to = MAIN_ADMIN_ID
    /\ reply.text = "dump"
    /\ reply.data = Report(USER_CHANNELS)
    /\ \E k \in 1..Len(USER_CHANNELS) :
          USER_CHANNELS[k].uid = 2 /\ USER_CHANNELS[k].channels # <<>>

\* ------------------------------------------------ claims: stale references
\* C21: a coroutine that resumes after an await looks the record of its
\* chat up again; when the channel was removed while it was suspended it
\* applies no rule of the removed record: an album job calls
\* edit_message_media with a watermarked file only while the chat of the
\* batch is in the Registry.
\* Violated: process_media_group reads auto_watermark_settings once and
\* goes on with that dictionary after the removal.
C21_NoRuleOfRemovedRecord ==
    [][\A j \in 1..Len(jobs) :
          (jobs[j].pc = "apply_watermark" /\ jobs'[j].pc = "edit_message_media") =>
             FindConfig(ChatOf(jobs[j].media_group_id)) # <<0, 0>>]_vars

\* ------------------------------------------------------- claims: groups
\* C29: a new message in a registered group or supergroup reaches the
\* resolve-and-transform logic of the post handler, as a post of a
\* registered channel does: the handler resolves the record of the chat.
\* Violated: the handler reads update.channel_post, which is None for a
\* message of a group, and returns.
C29_GroupMessageProcessed ==
    [][\A inp \in PostInputs :
          (FindConfig(inp.chat_id) # <<0, 0>> /\ GroupMessageArrives(inp)) =>
             handler'.channel_config = FindConfig(inp.chat_id)]_vars

\* lemma: a post of a registered channel does reach the resolve logic
ChannelPostResolved ==
    [][\A inp \in PostInputs :
          (FindConfig(inp.chat_id) # <<0, 0>> /\ PostArrives(inp)) =>
             handler'.channel_config = FindConfig(inp.chat_id)]_vars

\* ------------------------------------------------- claims: the rule grammar
\* the segments "label - target" of a button line, by position
Segments(line) ==
    LET parts == Split(line, "&&")
    IN  {n \in 1..Len(parts) : \E i \in 1..Len(parts[n]) : parts[n][i] = " - "}

\* C31: every segment "label - target" of the button configuration, with a
\* URL or with a "popup: <text>" directive as its target, yields one button
\* in the row of its line: the markup the handler composed for a post has
\* one row for each line and in it one button for each segment.
\* Violated: a segment with " - popup:" is skipped, no button is built.
C31_PopupYieldsButton ==
    (handler.pc # "idle" /\ handler.channel_config # <<0, 0>> /\ calls # <<>>) =>
        LET cfg == ConfigAt(handler.channel_config)
            lines == Split(cfg.auto_button.config, "\n")
            rows == handler.final_reply_markup.inline_keyboard
        IN  (/\ cfg.auto_button.status = "active"
             /\ cfg.auto_button.config \notin {None, <<>>, NotSet}
             /\ \A n \in 1..Len(lines) : Segments(lines[n]) # {}) =>
                /\ Len(rows) = Len(lines)
                /\ \A n \in 1..Len(lines) : Len(rows[n]) = Cardinality(Segments(lines[n]))

\* lemma: a line of URL segments only yields one button for each segment
UrlSegmentsYieldButtons ==
    (handler.pc # "idle" /\ handler.channel_config # <<0, 0>> /\ calls # <<>>) =>
        LET cfg == ConfigAt(handler.channel_config)
            lines == Split(cfg.auto_button.config, "\n")
            rows == handler.final_reply_markup.inline_keyboard
        IN  (/\ cfg.auto_button.status = "active"
             /\ cfg.auto_button.config \notin {None, <<>>, NotSet}
             /\ Len(rows) >= 2) =>
                Len(rows[2]) = Cardinality(Segments(lines[2]))


\* the length of a text in UTF-16 code units: one unit for each token and one
\* more for each token outside the Basic Multilingual Plane
CodeUnits(text) ==
    Len(text) + Cardinality({i \in 1..Len(text) : text[i] \in {"<gem>", "<bookmark>"}})

\* the caption rule of the handled channel appends to the text of the post
CaptionAppended ==
    /\ handler.pc # "idle" /\ handler.channel_config # <<0, 0>> /\ calls # <<>>
    /\ ConfigAt(handler.channel_config).auto_captions.status = "active"
    /\ ConfigAt(handler.channel_config).auto_captions.config \notin {None, <<>>, NotSet}
    /\ original_text(channel_post) # None

\* C32: when the configured caption is appended to a post that has text, the
\* composed entities are the entities of the post, unchanged and first, then
\* one new entity for each configured entity, with the configured type and
\* length and with offset = UTF-16 length of the original text + 2 (the
\* separator) + the configured offset.
C32_AppendedEntityOffsets ==
    CaptionAppended =>
        LET cap == ConfigAt(handler.channel_config).auto_captions
            old == channel_post.entities
            new == handler.final_entities
            base == CodeUnits(original_text(channel_post))
        IN  /\ Len(new) = Len(old) + Len(cap.entities)
            /\ \A i \in 1..Len(old) : new[i] = old[i]
            /\ \A j \in 1..Len(cap.entities) :
                  /\ new[Len(old) + j].type = cap.entities[j].type
                  /\ new[Len(old) + j].length = cap.entities[j].length
                  /\ new[Len(old) + j].offset = base + 2 + cap.entities[j].offset

\* the caption was appended to a photo post whose caption holds a character
\* of two code units and one entity: the configured entity follows it,
\* shifted by 3 + 2
C32_Witness ==
    /\ CaptionAppended
    /\ channel_post.kind = "photo"
    /\ CodeUnits(original_text(channel_post)) > Len(original_text(channel_post))
    /\ Len(channel_post.entities) = 1
    /\ Len(handler.final_entities) = 2
    /\ handler.final_entities[2].offset = 6


\* ------------------------------------------------ claims: the compilers
\* a compiler has built the command of the handled post
Compiled == handler.pc # "idle" /\ handler.ffmpeg_command.compiler # "none"

\* the command the same compiler builds for the same post when the stored
\* settings differ in the given fields
CommandWith(settings) ==
    Compile(handler.ffmpeg_command.compiler, channel_post,
            settings @@ ConfigAt(handler.channel_config).auto_watermark)

\* C33: for every quality in 1..100 the rate parameter of the command lies
\* in 0..51 for a video and in 2..31 for a still image, in both compilers,
\* and no lower quality gives a smaller parameter.
\* Violated: for a still the text compiler gives 0 or 1 from quality 94 on,
\* the overlay compiler gives 1.
C33_RateParameterInRange ==
    Compiled =>
        LET cmd == handler.ffmpeg_command
            quality == Get(ConfigAt(handler.channel_config).auto_watermark, "quality", 75)
        IN  /\ cmd.rate.flag = "-crf" => cmd.rate.value \in 0..51
            /\ cmd.rate.flag = "-q:v" => cmd.rate.value \in 2..31
            /\ \A q \in 1..100 :
                  q < quality => CommandWith([quality |-> q]).rate.value >= cmd.rate.value

\* lemma: the parameter of a video lies in 0..51, that of a still is at most
\* 31, and the parameter never increases with quality
RateParameterBounded ==
    Compiled =>
        LET cmd == handler.ffmpeg_command
            quality == Get(ConfigAt(handler.channel_config).auto_watermark, "quality", 75)
        IN  /\ cmd.rate.flag = "-crf" => cmd.rate.value \in 0..51
            /\ cmd.rate.flag = "-q:v" => cmd.rate.value \in 0..31
            /\ \A q \in 1..100 :
                  q < quality => CommandWith([quality |-> q]).rate.value >= cmd.rate.value

\* a ratio is smaller than another
Less(a, b) == a.num * b.den < b.num * a.den

\* C34: the factor of t in the expression of a motion effect strictly
\* decreases as effect_speed increases over 1..100, for the effects of the
\* text compiler and for the diagonal effects of the overlay compiler: every
\* lower effect_speed gives a greater factor.
\* Violated: the overlay compiler's factor is effect_speed / 50.0 * 100, it
\* grows with effect_speed.
C34_VelocityInverseToSpeed ==
    (Compiled /\ handler.ffmpeg_command.motion.den # 0) =>
        LET effect_speed ==
                Get(ConfigAt(handler.channel_config).auto_watermark, "effect_speed", 50)
        IN  \A s \in 1..100 :
               s < effect_speed =>
                   Less(handler.ffmpeg_command.motion,
                        CommandWith([effect_speed |-> s]).motion)

\* lemma: the factor of the text compiler strictly decreases
DrawtextVelocityInverse ==
    (Compiled /\ handler.ffmpeg_command.motion.den # 0
        /\ handler.ffmpeg_command.compiler = "apply_watermark") =>
        LET effect_speed ==
                Get(ConfigAt(handler.channel_config).auto_watermark, "effect_speed", 50)
        IN  \A s \in 1..100 :
               s < effect_speed =>
                   Less(handler.ffmpeg_command.motion,
                        CommandWith([effect_speed |-> s]).motion)


\* C37: a media item that is watermarked is composited with the stored
\* watermark type: while a compiler runs for the handled post it is the text
\* compiler exactly when the type is text, and the overlay compiler when the
\* type is image or animation.
\* Violated: an animation post is always given to the text compiler.
C37_CompilerOfStoredKind ==
    (handler.pc \in {"apply_watermark", "apply_image_watermark"}) =>
        LET type == watermark_type(ConfigAt(handler.channel_config).auto_watermark)
        IN  /\ handler.pc = "apply_watermark" <=> type = "text"
            /\ handler.pc = "apply_image_watermark" <=> type \in {"image", "animation"}

\* lemma: photos and videos are composited with the stored type
PhotoVideoCompilerOfStoredKind ==
    (handler.pc \in {"apply_watermark", "apply_image_watermark"}
        /\ channel_post.kind \in {"photo", "video"}) =>
        LET type == watermark_type(ConfigAt(handler.channel_config).auto_watermark)
        IN  /\ handler.pc = "apply_watermark" <=> type = "text"
            /\ handler.pc = "apply_image_watermark" <=> type \in {"image", "animation"}


\* ----------------------------------------------- claims: the source cache
\* the cache file a stored path names
Ext(file_path) == IF file_path = ImagePath THEN "png" ELSE "gif"

\* C38: for every record whose watermark type is image or animation, the
\* file at its stored path holds the bytes of its stored source identifier,
\* also after a capture whose download failed and after another owner
\* captured a source for the same channel id.
\* Violated: a capture stores the new identifier before the download and
\* keeps it when the download fails; the path depends on the channel id
\* only, so the capture of another owner overwrites the file.
C38_CacheHoldsStoredSource ==
    \A k \in 1..Len(USER_CHANNELS) : \A c \in 1..Len(USER_CHANNELS[k].channels) :
        LET ch == USER_CHANNELS[k].channels[c]
            wm == ch.auto_watermark
        IN  (wm.type \in {"image", "animation"} /\ wm.file_path # None) =>
                cached[ch.id][Ext(wm.file_path)] = wm.file_id


\* --------------------------------------------- claims: rejected messages
\* the range of each numeric field
RangeOf(field) ==
    CASE field = "set_watermark_size_value" -> 1..100
      [] field = "set_watermark_transparency_value" -> 0..95
      [] field = "set_watermark_quality_value" -> 1..100
      [] field = "set_watermark_rotation_value" -> 0..360
      [] field = "set_effect_speed_value" -> 1..100

\* the numbers the texts of the users spell; <<"w">> spells none
Spelled ==
    { <<<<"1">>, 1>>, <<<<"1", "0", "0">>, 100>>, <<<<"1", "0", "1">>, 101>>,
      <<<<"0">>, 0>>, <<<<"3", "6", "0">>, 360>>, <<<<"3", "6", "1">>, 361>>,
      <<<<"9", "5">>, 95>>, <<<<"9", "6">>, 96>>, <<<<"-", "1">>, -1>> }

\* a text that is to be rejected for the field: no number, or out of range
ToReject(field, text) == \A p \in Spelled : p[1] = text => p[2] \notin RangeOf(field)

\* C39: a text message that answers the prompt of a numeric field and is no
\* number or is out of the range of the field leaves the Registry, and so
\* every field of the record, unchanged, and the persisted document is not
\* rewritten.
C39_RejectedNumberChangesNothing ==
    [][\A user_id \in Users, message \in Messages,
          download \in {"ok", "error"}, replied \in {"ok", "error"} :
          (/\ next_step[user_id].field \in NumericFields
           /\ message.kind = "text"
           /\ ToReject(next_step[user_id].field, message.text)
           /\ UserMessage(user_id, message, download, replied)) =>
                UNCHANGED <<USER_CHANNELS, DATA_FILE, files>>]_vars

\* user 1 has been told that the number sent is out of range, and the user
\* has a record of chat 10
C39_Witness ==
    /\ reply = Answer(1, "out_of_range")
    /\ Chosen(1, 10) # 0
    /\ next_step[1] = NoStep
    /\ DATA_FILE = json_dump(USER_CHANNELS)


\* ------------------------------------------------- claims: stale menus
\* the lists of the owners other than user_id stay as they are, and no
\* owner is added
OthersUnchanged(user_id) ==
    /\ Len(USER_CHANNELS') = Len(USER_CHANNELS)
    /\ \A k \in 1..Len(USER_CHANNELS) :
          USER_CHANNELS[k].uid # user_id => USER_CHANNELS'[k] = USER_CHANNELS[k]

\* the list of user_id has no record of the channel
Missing(user_id, ch_id) ==
    \A k \in 1..Len(USER_CHANNELS) :
        USER_CHANNELS[k].uid = user_id =>
            \A c \in 1..Len(USER_CHANNELS[k].channels) :
                USER_CHANNELS[k].channels[c].id # ch_id

\* user_id presses a toggle button of the menu of chat 10
Pressed(user_id) ==
    \/ \E block \in Blocks : ToggleStatusPressed(user_id, 10, block)
    \/ \E status \in {"active", "inactive"} : ToggleReactionsPressed(user_id, 10, status)

\* user_id answers a pending prompt with the message, and the answer of the
\* handler is delivered
Sent(user_id, message) ==
    /\ next_step[user_id] # NoStep
    /\ UserMessage(user_id, message, "ok", "ok")

C35_PostsReachPostHandler ==
    [][\A u \in TextUpdates, chat \in {0, 30} :
          (u.chat_type = "channel" /\ process_update(u, chat)) =>
              /\ channel_post' = [message_id |-> next_message_id] @@ PostOf(u)
              /\ handler'.pc # "idle"]_vars

\* lemma: a post of a channel whose text does not begin with "@" is given to
\* handle_channel_post
OtherPostsReachPostHandler ==
    [][\A u \in TextUpdates, chat \in {0, 30} :
          (u.chat_type = "channel" /\ Head(u.text) # "@" /\ process_update(u, chat)) =>
              /\ channel_post' = [message_id |-> next_message_id] @@ PostOf(u)
              /\ handler'.pc # "idle"]_vars

\* C36: a text that begins with "@", sent in the private chat, is answered:
\* the chat is registered for the user (or was already), or the user is told
\* that it could not be found.
\* Violated: handle_user_message, added before handle_text_channel_username,
\* takes every text of a private chat; without a pending step it does
\* nothing.
C36_UsernameMessageAnswered ==
    [][\A u \in TextUpdates, chat \in {0, 30} :
          (u.chat_type = "private" /\ Head(u.text) = "@" /\ process_update(u, chat)) =>
              reply' \in {Answer(u.user_id, "saved"), Answer(u.user_id, "already_saved"),
                          Answer(u.user_id, "could_not_find")}]_vars

====
